---- MODULE Spec2Model ----
(***************************************************************************)
(* Conversation / message engine of the RealtimeMessage server:            *)
(* server/controllers/messageController.js, server/socket.js,              *)
(* server/models/Message.js, server/models/Conversation.js and             *)
(* server/utils/crypto.js.                                                 *)
(*                                                                         *)
(* The store is modelled the way the handlers use it: Conversation.findOne *)
(* returns a private copy of the stored document, the handler changes the  *)
(* copy synchronously, and conversation.save() writes the changed paths    *)
(* back.  The handlers read and write `participants` and `admins` as       *)
(* top-level array fields of the conversation document, so that is the     *)
(* document shape used here.  No handler reads, checks or increments the   *)
(* `version` field of the schema.                                          *)
(***************************************************************************)
EXTENDS Integers, Sequences, FiniteSets, TLC

VARIABLES
  conversations,  \* stored Conversation documents, by _id
  messages,       \* stored Message documents, by _id
  nextConv,       \* next fresh conversation _id
  nextMsg,        \* next fresh message _id
  now,            \* Date.now() of the server clock
  key,            \* ENCRYPTION_KEY of the running process
  resp,           \* the response sent last
  page,           \* body of the last getMessages response
  inflight,       \* per worker: the handler suspended at an await, or Idle
  window,         \* history: the requests that overlapped since the store was last quiescent
  client,         \* a client reading a conversation page by page: its cursor and what it has read
  codec,          \* the last call of a function of utils/crypto.js or utils/encryption.js
  emitted,        \* the socket events sent by the handler step taken last, with their rooms
  sockets         \* the socket.io connections, by socket id

vars == <<conversations, messages, nextConv, nextMsg, now, key, resp, page, inflight, window, client,
         codec, emitted, sockets>>

-----------------------------------------------------------------------------
(* Bounds *)

Users == {"u1", "u2", "u3"}

\* _ids of the group conversations created in one behaviour
GroupIds == {1}
\* user ids carried by the arrays of one request body
MaxReqIds == 2

\* conversations created in one behaviour of the direct-conversation specifications
MaxConvs == 3
\* pieces between ':' delimiters of a string handed to a decrypting function
MaxPieces == 3
\* messages of the store read page by page
MaxPageMsgs == 3
\* messages stored in one behaviour
MaxMsgs == 1
\* ticks of the server clock
MaxTime == 1
\* largest `limit` of a page request
MaxLimit == 2
\* addMessage keeps the last 100 entries of messageHistory
HistoryCap == 100

\* message texts, initialisation vectors and keys
Texts == {"hello", "bye"}
IVs == {"iv1"}
Keys == {"k1", "k2"}

None == "none"

\* concurrent request workers of the server process
Workers == {"w1", "w2"}
Idle == [op |-> None]
NoDoc == [isGroup |-> FALSE, participants |-> <<>>, admins |-> <<>>, lastMessage |-> 0,
          createdBy |-> None, participantDetails |-> <<>>, messageHistory |-> <<>>,
          unreadCount |-> 0, exists |-> FALSE]
NoWindow == [base |-> NoDoc, done |-> <<>>, n |-> 0]
\* a page request without `before`
NoCursor == -1
NoCall == [fn |-> None, input |-> <<>>, of |-> <<>>, key |-> None, ok |-> TRUE, value |-> <<>>]
NoClient == [limit |-> 0, cursor |-> NoCursor, collected |-> <<>>, done |-> FALSE]

-----------------------------------------------------------------------------
(* Array helpers *)

\* Array.prototype.includes on an id array
Includes(arr, id) == \E i \in 1..Len(arr) : arr[i] = id

\* arr.filter(id => id.toString() !== userId)
FilterOut(arr, userId) == SelectSeq(arr, LAMBDA id : id # userId)

\* [...new Set(arr)]: first occurrences, in order
RECURSIVE Dedup(_)
Dedup(arr) ==
  IF arr = <<>> THEN <<>>
  ELSE LET front == Dedup(SubSeq(arr, 1, Len(arr) - 1))
           last  == arr[Len(arr)]
       IN IF Includes(front, last) THEN front ELSE Append(front, last)

SetOf(arr) == {arr[i] : i \in 1..Len(arr)}

\* request arrays of at most n user ids, duplicates allowed
IdLists(n) == UNION {[1..k -> Users] : k \in 0..n}

-----------------------------------------------------------------------------
(* Store access *)

Stored(c) == c \in DOMAIN conversations

\* Conversation.findOne({_id: c, ...}): the stored document or null
Doc(c) == IF Stored(c) THEN conversations[c] ELSE NoDoc

GroupDoc(isGroup, participants, admins) ==
  [isGroup |-> isGroup, participants |-> participants, admins |-> admins, lastMessage |-> 0,
   createdBy |-> None, participantDetails |-> <<>>, messageHistory |-> <<>>,
   unreadCount |-> 0, exists |-> TRUE]

\* what a handler decided: the status it answers with and the write it issues
Reject(status) == [status |-> status, write |-> "none", participants |-> <<>>, admins |-> <<>>]
Save(participants, admins) ==
  [status |-> 200, write |-> "save", participants |-> participants, admins |-> admins]
Delete == [status |-> 200, write |-> "delete", participants |-> <<>>, admins |-> <<>>]

-----------------------------------------------------------------------------
(* Group handlers of the message controller, as functions of the document  *)
(* findOne returned and of the request.                                    *)

\* a lookup that also finds direct conversations
leaveGroupFindsAnyKind(d, userId) == d.exists /\ Includes(d.participants, userId)

\* leaveGroup: Conversation.findOne({_id, isGroup: true, participants: userId})
leaveGroupFinds(d, userId) == d.exists /\ d.isGroup /\ Includes(d.participants, userId)

\* a check that lets every admin go
isLastAdminNever(d, userId) == FALSE

\* leaveGroup: const isLastAdmin
isLastAdmin(d, userId) == Len(d.admins) = 1 /\ d.admins[1] = userId

\* exports.leaveGroup
\* leaveGroup without the branch that deletes an emptied conversation
leaveGroupSavesEmptied(d, userId) ==
  IF ~leaveGroupFinds(d, userId) THEN Reject(404)
  ELSE IF isLastAdmin(d, userId) THEN Reject(400)
  ELSE Save(FilterOut(d.participants, userId), FilterOut(d.admins, userId))

leaveGroupOutcome(d, userId) ==
  IF ~leaveGroupFinds(d, userId) THEN Reject(404)
  ELSE IF isLastAdmin(d, userId) THEN Reject(400)
  ELSE LET participants == FilterOut(d.participants, userId)
           admins       == FilterOut(d.admins, userId)
       IN IF Len(participants) = 0 THEN Delete ELSE Save(participants, admins)

\* removeParticipantFromGroup without the filter on admins
removeParticipantKeepsAdmin(d, currentUserId, participantId) ==
  IF ~(d.exists /\ d.isGroup /\ Includes(d.participants, currentUserId)) THEN Reject(404)
  ELSE IF ~Includes(d.participants, participantId) THEN Reject(400)
  ELSE IF ~Includes(d.admins, currentUserId) THEN Reject(403)
  ELSE IF participantId = currentUserId /\ Len(d.admins) = 1 /\ d.admins[1] = currentUserId
       THEN Reject(400)
  ELSE LET participants == FilterOut(d.participants, participantId)
       IN IF Len(participants) = 0 THEN Delete ELSE Save(participants, d.admins)

\* exports.removeParticipantFromGroup
removeParticipantOutcome(d, currentUserId, participantId) ==
  IF ~(d.exists /\ d.isGroup /\ Includes(d.participants, currentUserId)) THEN Reject(404)
  ELSE IF ~Includes(d.participants, participantId) THEN Reject(400)
  ELSE IF ~Includes(d.admins, currentUserId) THEN Reject(403)
  ELSE IF participantId = currentUserId /\ Len(d.admins) = 1 /\ d.admins[1] = currentUserId
       THEN Reject(400)
  ELSE LET participants == FilterOut(d.participants, participantId)
           admins       == FilterOut(d.admins, participantId)
       IN IF Len(participants) = 0 THEN Delete ELSE Save(participants, admins)

\* exports.addParticipantsToGroup
addParticipantsOutcome(d, userId, participants) ==
  IF ~(d.exists /\ d.isGroup /\ Includes(d.admins, userId)) THEN Reject(403)
  ELSE LET newParticipants == SelectSeq(participants, LAMBDA pId : ~Includes(d.participants, pId))
       IN IF Len(newParticipants) = 0 THEN Reject(400)
          ELSE Save(Dedup(d.participants \o newParticipants), d.admins)

\* exports.updateGroupConversation; an array the body leaves out behaves as []
updateGroupOutcome(d, userId, participants, addAdmins, removeAdmins) ==
  IF ~(d.exists /\ d.isGroup /\ Includes(d.admins, userId)) THEN Reject(403)
  ELSE LET newParticipants == SelectSeq(participants, LAMBDA pId : ~Includes(d.participants, pId))
           allParticipants == Dedup(d.participants \o newParticipants)
           validNewAdmins  == SelectSeq(addAdmins,
                                LAMBDA id : Includes(allParticipants, id) /\ ~Includes(d.admins, id))
           allAdmins       == Dedup(d.admins \o validNewAdmins)
           remainingAdmins == SelectSeq(allAdmins,
                                LAMBDA id : ~Includes(removeAdmins, id) \/ id = userId)
       IN IF Len(remainingAdmins) = 0 THEN Reject(400)
          ELSE Save(allParticipants, remainingAdmins)

\* exports.createGroupConversation: the document handed to save()
createGroupDoc(creatorId, participants) ==
  [GroupDoc(TRUE, Dedup(participants \o <<creatorId>>), <<creatorId>>)
     EXCEPT !.createdBy = creatorId]

\* exports.getConversationById
\* the lookup of getConversationById: found for a participant, or null
getConversationByIdStatus(d, userId) ==
  IF d.exists /\ Includes(d.participants, userId) THEN 200 ELSE 404

-----------------------------------------------------------------------------
(* Socket events: io.to(`user_${id}`).emit(name, ...) *)

Event(name, to) == [event |-> name, to |-> to]

\* the ids of a request that are not yet participants
NewParticipants(d, participants) ==
  {p \in SetOf(participants) : ~Includes(d.participants, p)}

createGroupEvents(creatorId, participants) ==
  {Event("new_conversation", p) : p \in SetOf(participants) \ {creatorId}}

leaveGroupEvents(d, userId) ==
  LET o == leaveGroupOutcome(d, userId) IN
  CASE o.write = "delete" -> {Event("group_deleted", userId)}
    [] o.write = "save"   -> {Event("participant_left", p) : p \in SetOf(o.participants)}
                               \cup {Event("left_group", userId)}
    [] OTHER              -> {}

removeParticipantEvents(d, currentUserId, participantId) ==
  LET o == removeParticipantOutcome(d, currentUserId, participantId) IN
  CASE o.write = "delete" -> {Event("group_deleted", participantId)}
    [] o.write = "save"   -> {Event("participant_removed", p) : p \in SetOf(o.participants)}
                               \cup {Event("removed_from_group", participantId)}
    [] OTHER              -> {}

addParticipantsEvents(d, userId, participants) ==
  LET o == addParticipantsOutcome(d, userId, participants) IN
  IF o.write = "none" THEN {}
  ELSE {Event("group_updated", p) : p \in SetOf(o.participants) \ {userId}}
         \cup {Event("added_to_group", p) : p \in NewParticipants(d, participants)}

\* updateGroupConversation tells the new participants before it saves ...
updateGroupEarlyEvents(d, userId, participants, addAdmins, removeAdmins) ==
  IF updateGroupOutcome(d, userId, participants, addAdmins, removeAdmins).write = "none"
    THEN {}
    ELSE {Event("added_to_group", p) : p \in NewParticipants(d, participants)}

\* ... and everybody after
updateGroupLateEvents(d, userId, participants, addAdmins, removeAdmins) ==
  LET o == updateGroupOutcome(d, userId, participants, addAdmins, removeAdmins) IN
  IF o.write = "none" THEN {}
  ELSE {Event("group_updated", p) : p \in SetOf(o.participants)}

-----------------------------------------------------------------------------
(* Writes *)

\* conversation.save() of the copy `snap`, changed as `o` says: every path the
\* handler changed is set, the others are left as stored.  A document deleted
\* in the meantime is not written.
SaveDoc(stored, snap, o) ==
  [stored EXCEPT
     !.participants = IF o.participants # snap.participants THEN o.participants ELSE @,
     !.admins       = IF o.admins # snap.admins THEN o.admins ELSE @]

\* the store after the write `o` of a handler that read `snap` from conversation c
Written(c, snap, o) ==
  CASE o.write = "save" /\ Stored(c)   -> [conversations EXCEPT ![c] = SaveDoc(@, snap, o)]
    [] o.write = "delete" /\ Stored(c) -> [x \in DOMAIN conversations \ {c} |-> conversations[x]]
    [] OTHER                           -> conversations

\* an entry of participantDetails as the schema and its hooks fill it in
Detail(userId) == [user |-> userId, hasUnread |-> FALSE, lastRead |-> now]

\* ConversationSchema.pre('save') on a new document
preSave(d) ==
  IF Len(d.participantDetails) = 0 /\ Len(d.participants) > 0
    THEN [d EXCEPT !.participantDetails = [i \in 1..Len(d.participants) |-> Detail(d.participants[i])]]
    ELSE d

\* the handler that answered last and its status; `tick` tells two answers apart
Response(op, status) == [op |-> op, status |-> status, tick |-> 1 - resp.tick]

NoResponse == [op |-> None, status |-> 0, tick |-> 0]

-----------------------------------------------------------------------------
(* Requests handled without interleaving *)

createGroupConversation(creatorId, participants) ==
  /\ nextConv \in GroupIds
  /\ conversations' = (nextConv :> createGroupDoc(creatorId, participants)) @@ conversations
  /\ nextConv' = nextConv + 1
  /\ resp' = Response("createGroup", 201)
  /\ emitted' = createGroupEvents(creatorId, participants)
  /\ UNCHANGED <<messages, nextMsg, now, key, page, inflight, window, client, codec, sockets>>

leaveGroup(c, userId) ==
  LET o == leaveGroupOutcome(Doc(c), userId) IN
  /\ conversations' = Written(c, Doc(c), o)
  /\ resp' = Response("leaveGroup", o.status)
  /\ emitted' = leaveGroupEvents(Doc(c), userId)
  /\ UNCHANGED <<messages, nextConv, nextMsg, now, key, page, inflight, window, client, codec, sockets>>

removeParticipantFromGroup(c, currentUserId, participantId) ==
  LET o == removeParticipantOutcome(Doc(c), currentUserId, participantId) IN
  /\ conversations' = Written(c, Doc(c), o)
  /\ resp' = Response("removeParticipant", o.status)
  /\ emitted' = removeParticipantEvents(Doc(c), currentUserId, participantId)
  /\ UNCHANGED <<messages, nextConv, nextMsg, now, key, page, inflight, window, client, codec, sockets>>

addParticipantsToGroup(c, userId, participants) ==
  LET o == addParticipantsOutcome(Doc(c), userId, participants) IN
  /\ conversations' = Written(c, Doc(c), o)
  /\ resp' = Response("addParticipants", o.status)
  /\ emitted' = addParticipantsEvents(Doc(c), userId, participants)
  /\ UNCHANGED <<messages, nextConv, nextMsg, now, key, page, inflight, window, client, codec, sockets>>

updateGroupConversation(c, userId, participants, addAdmins, removeAdmins) ==
  LET o == updateGroupOutcome(Doc(c), userId, participants, addAdmins, removeAdmins) IN
  /\ conversations' = Written(c, Doc(c), o)
  /\ resp' = Response("updateGroup", o.status)
  /\ emitted' = updateGroupEarlyEvents(Doc(c), userId, participants, addAdmins, removeAdmins)
                  \cup updateGroupLateEvents(Doc(c), userId, participants, addAdmins, removeAdmins)
  /\ UNCHANGED <<messages, nextConv, nextMsg, now, key, page, inflight, window, client, codec, sockets>>

-----------------------------------------------------------------------------
(* utils/crypto.js.  A string is [iv, key, text]: a text typed by a user   *)
(* has no iv part; an envelope <ivHex>:<ciphertextHex> carries the iv it   *)
(* was made with and stands for the text enciphered under `key`.           *)

NoIv == "noiv"
NoKey == "nokey"
Plain(t) == [iv |-> NoIv, key |-> NoKey, text |-> t]
Plaintexts == {Plain(t) : t \in Texts}
IsEnvelope(s) == s.iv # NoIv

\* encryptMessage(text) with the random iv drawn
encryptMessage(text, iv) == [iv |-> iv, key |-> key, text |-> text.text]

\* decryptMessage(text): the text, or the thrown 'Failed to decrypt message'
decryptMessage(text) ==
  IF IsEnvelope(text) /\ text.key = key
    THEN [ok |-> TRUE, text |-> Plain(text.text)]
    ELSE [ok |-> FALSE, text |-> Plain("Failed to decrypt message")]

DecryptionFailed == Plain("[Message decryption failed]")

-----------------------------------------------------------------------------
(* socket.js: connections.  A socket is refused by the io.use middleware or *)
(* reaches the connection handler, which joins it to the room of its user   *)
(* and registers the event handlers.  `pending` is the send_message handler *)
(* of the socket suspended at `await message.save()`.                       *)

SocketIds == {"s1", "s2", "s3"}

NoToken == [valid |-> FALSE, user |-> None]
\* what a client may present: nothing, a token jwt.verify rejects (forged or
\* expired, whatever user it names), or a token signed for a user
Tokens == {NoToken} \cup {[valid |-> v, user |-> u] : v \in BOOLEAN, u \in Users}

NoSend == [conversationId |-> 0]
NoSocket ==
  [state |-> "none", user |-> None, rooms |-> {}, handlers |-> FALSE, pending |-> NoSend]
NoSockets == [s \in SocketIds |-> NoSocket]

\* the connection handler has run: socket.join(`user_${socket.user.id}`) and socket.on(...)
Accepted(userId) ==
  [state |-> "connected", user |-> userId, rooms |-> {userId}, handlers |-> TRUE,
   pending |-> NoSend]

\* next(new Error(...)): the connection handler never runs
Refused == [NoSocket EXCEPT !.state = "refused"]

\* one connection per user
OneSocketEach == ("s1" :> Accepted("u1")) @@ ("s2" :> Accepted("u2")) @@ ("s3" :> Accepted("u3"))

\* a middleware that reads the token without verifying it
authenticateUnverified(token) == token # NoToken

\* io.use: a token is there and jwt.verify accepts it
authenticate(token) == token # NoToken /\ token.valid

Connected(s) == sockets[s].state = "connected"

\* socket.to(room).emit(...): the event is for the room but not for the socket
\* that sends it
Excepts(x, s) == "except" \in DOMAIN x /\ x.except = s

\* the events of the last step that reach socket s: those sent to a room it
\* is in and those sent to the socket itself
ReceivedBy(s) ==
  {e.event : e \in {x \in emitted : Connected(s) /\ (x.to \in sockets[s].rooms \/ x.to = s)
                                       /\ ~Excepts(x, s)}}

\* a client opens a connection presenting `token`
connect(s, token) ==
  /\ sockets[s].state \in {"none", "refused"}
  /\ sockets' = [sockets EXCEPT ![s] =
       IF authenticate(token) THEN Accepted(token.user) ELSE Refused]
  /\ resp' = Response("connect", IF authenticate(token) THEN 200 ELSE 401)
  /\ emitted' = {}
  /\ UNCHANGED <<conversations, messages, nextConv, nextMsg, now, key, page, inflight, window,
                 client, codec>>

\* the connection closes; a save the handler awaits is not called off
disconnect(s) ==
  /\ Connected(s)
  /\ sockets' = [sockets EXCEPT ![s].state = "closed", ![s].rooms = {}]
  /\ resp' = Response("disconnect", 0)
  /\ emitted' = {}
  /\ UNCHANGED <<conversations, messages, nextConv, nextMsg, now, key, page, inflight, window,
                 client, codec>>

-----------------------------------------------------------------------------
(* Messages *)

\* new Message({...}) as saved; `sent` and `authorised` are history: the text
\* the sender supplied with the key of that moment, and whether the
\* conversation existed with sender and recipient in it when the write happened
MessageDoc(c, sender, recipient, content, sent) ==
  [conversationId |-> c, sender |-> sender, recipient |-> recipient,
   content |-> content, isEncrypted |-> TRUE, read |-> FALSE, createdAt |-> now,
   sent |-> [text |-> sent, key |-> key],
   authorised |-> Stored(c) /\ Includes(Doc(c).participants, sender)
                            /\ Includes(Doc(c).participants, recipient)]

\* exports.sendMessage: the content is saved as received (models/Message.js
\* registers no pre-save hook)
sendMessageStatus(d, senderId, recipientId) ==
  IF d.exists /\ Includes(d.participants, senderId) /\ Includes(d.participants, recipientId)
    THEN 201 ELSE 403

sendMessageContent(content) == content

sendMessage(c, senderId, recipientId, content) ==
  LET status == sendMessageStatus(Doc(c), senderId, recipientId) IN
  /\ nextMsg <= MaxMsgs
  /\ IF status = 201
       THEN /\ messages' = (nextMsg :> MessageDoc(c, senderId, recipientId,
                                         sendMessageContent(content), content)) @@ messages
            /\ nextMsg' = nextMsg + 1
       ELSE UNCHANGED <<messages, nextMsg>>
  /\ resp' = Response("sendMessage", status)
  /\ emitted' = IF status = 201 THEN {Event("new_message", recipientId)} ELSE {}
  /\ UNCHANGED <<conversations, nextConv, now, key, page, inflight, window, client, codec, sockets>>

\* socket.on('send_message') with all three fields present, on socket s: the
\* conversation is not looked up; the confirmation goes to the socket itself
sendMessageOn(s, c, recipientId, content, iv) ==
  /\ nextMsg <= MaxMsgs
  /\ messages' = (nextMsg :> MessageDoc(c, sockets[s].user, recipientId,
                                encryptMessage(content, iv), content)) @@ messages
  /\ nextMsg' = nextMsg + 1
  /\ resp' = Response("send_message", 200)
  /\ emitted' = {Event("receive_message", recipientId), Event("message_sent", s)}
  /\ UNCHANGED <<conversations, nextConv, now, key, page, inflight, window, client, codec>>

\* the handler running to its end on a connection of senderId
socketSendMessage(c, senderId, recipientId, content, iv) ==
  \E s \in SocketIds :
    /\ Connected(s) /\ sockets[s].handlers
    /\ sockets[s].user = senderId
    /\ sendMessageOn(s, c, recipientId, content, iv)
    /\ UNCHANGED sockets

\* Message.find(query): the ids matching {conversationId, createdAt: {$lt: before}}
Matching(c, before) ==
  {m \in DOMAIN messages :
     /\ messages[m].conversationId = c
     /\ before # NoCursor => messages[m].createdAt < before}

\* .sort({createdAt: -1}): any order of S by descending createdAt
SortedDesc(S) ==
  {o \in [1..Cardinality(S) -> S] :
     /\ \A i, j \in 1..Cardinality(S) : i # j => o[i] # o[j]
     /\ \A i, j \in 1..Cardinality(S) : i < j => messages[o[i]].createdAt >= messages[o[j]].createdAt}

Reverse(s) == [i \in 1..Len(s) |-> s[Len(s) + 1 - i]]

\* a decrypting map that hands on the stored content when decryption fails
decryptedOrStored(m) ==
  [id |-> m,
   content |-> IF messages[m].isEncrypted /\ decryptMessage(messages[m].content).ok
                 THEN decryptMessage(messages[m].content).text
                 ELSE messages[m].content]

\* the decrypting map of getMessages
decryptedMessage(m) ==
  [id |-> m,
   content |-> IF messages[m].isEncrypted
                 THEN IF decryptMessage(messages[m].content).ok
                        THEN decryptMessage(messages[m].content).text
                        ELSE DecryptionFailed
                 ELSE messages[m].content]

\* the body getMessages answers with, `sorted` being what the query returned
getMessagesBody(sorted, limit) ==
  LET fetched == SubSeq(sorted, 1, IF Len(sorted) < limit + 1 THEN Len(sorted) ELSE limit + 1)
      hasMore == Len(fetched) > limit
      kept    == IF hasMore THEN SubSeq(fetched, 1, Len(fetched) - 1) ELSE fetched
  IN [messages |-> Reverse([i \in 1..Len(kept) |-> decryptedMessage(kept[i])]),
      hasMore |-> hasMore]

NoPage == [messages |-> <<>>, hasMore |-> FALSE]

\* exports.getMessages
getMessagesHandler(c, userId, limit, before) ==
  /\ IF Stored(c) /\ Includes(Doc(c).participants, userId)
       THEN /\ \E sorted \in SortedDesc(Matching(c, before)) :
                 page' = getMessagesBody(sorted, limit)
            /\ resp' = Response("getMessages", 200)
       ELSE /\ page' = NoPage
            /\ resp' = Response("getMessages", 403)
  /\ emitted' = {}
  /\ UNCHANGED <<conversations, messages, nextConv, nextMsg, now, key, inflight, window, sockets>>

getMessages(c, userId, limit, before) ==
  getMessagesHandler(c, userId, limit, before) /\ UNCHANGED <<client, codec>>

-----------------------------------------------------------------------------
(* Read receipts and message deletion *)

\* all messages kept but those in S
Without(S) == [m \in DOMAIN messages \ S |-> messages[m]]

\* a filter that finds the message whoever asks
markAsReadFindsAny(m, userId) == m \in DOMAIN messages

\* the filter {_id: messageId, recipient: userId} of markAsRead
markAsReadFinds(m, userId) ==
  m \in DOMAIN messages /\ messages[m].recipient = userId

\* an update that flips the flag
markAsReadFlips(d) == [d EXCEPT !.read = ~d.read]

\* the update { read: true } of markAsRead
markAsReadUpdate(d) == [d EXCEPT !.read = TRUE]

\* exports.markAsRead: findOneAndUpdate sets the flag of the message it finds
markAsRead(m, userId) ==
  /\ IF markAsReadFinds(m, userId)
       THEN /\ messages' = [messages EXCEPT ![m] = markAsReadUpdate(messages[m])]
            /\ resp' = Response("markAsRead", 200)
            /\ emitted' = {Event("message_read", messages[m].sender)}
       ELSE /\ UNCHANGED messages
            /\ resp' = Response("markAsRead", 404)
            /\ emitted' = {}
  /\ UNCHANGED <<conversations, nextConv, nextMsg, now, key, page, inflight, window,
                 client, codec, sockets>>

\* the condition under which socket.on('message_read') acts
messageReadActs(m, userId) ==
  m \in DOMAIN messages /\ messages[m].recipient = userId

\* socket.on('message_read'): nothing is answered to the socket that asked
socketMessageRead(m, userId) ==
  /\ IF messageReadActs(m, userId)
       THEN /\ messages' = [messages EXCEPT ![m].read = TRUE]
            /\ emitted' = {Event("message_read", messages[m].sender)}
       ELSE /\ UNCHANGED messages
            /\ emitted' = {}
  /\ resp' = Response("message_read", 0)
  /\ UNCHANGED <<conversations, nextConv, nextMsg, now, key, page, inflight, window,
                 client, codec, sockets>>

\* a filter that also finds the message for its recipient
deleteMessageFindsEitherParty(m, userId) ==
  m \in DOMAIN messages /\ userId \in {messages[m].sender, messages[m].recipient}

\* the filter {_id: messageId, sender: userId} of deleteMessage
deleteMessageFinds(m, userId) ==
  m \in DOMAIN messages /\ messages[m].sender = userId

\* exports.deleteMessage: findOneAndDelete removes the message it finds
deleteMessage(m, userId) ==
  /\ IF deleteMessageFinds(m, userId)
       THEN /\ messages' = Without({m})
            /\ resp' = Response("deleteMessage", 200)
            /\ emitted' = {Event("message_deleted", messages[m].recipient)}
       ELSE /\ UNCHANGED messages
            /\ resp' = Response("deleteMessage", 404)
            /\ emitted' = {}
  /\ UNCHANGED <<conversations, nextConv, nextMsg, now, key, page, inflight, window,
                 client, codec, sockets>>

-----------------------------------------------------------------------------
(* Conversation deletion *)

\* exports.deleteConversation: found for a participant or the creator, and a
\* group is deleted for its admins only
deleteConversationOutcome(d, userId) ==
  IF ~(d.exists /\ (Includes(d.participants, userId) \/ d.createdBy = userId))
    THEN Reject(404)
  ELSE IF d.isGroup /\ ~Includes(d.admins, userId)
    THEN Reject(403)
    ELSE Delete

deleteConversationEvents(d, userId) ==
  IF deleteConversationOutcome(d, userId).write = "none" THEN {}
  ELSE {Event("conversation_deleted", p) : p \in SetOf(d.participants) \ {userId}}

\* Message.deleteMany({conversationId})
MessagesIn(c) == {m \in DOMAIN messages : messages[m].conversationId = c}

deleteConversation(c, userId) ==
  LET o == deleteConversationOutcome(Doc(c), userId) IN
  /\ messages' = IF o.write = "delete" THEN Without(MessagesIn(c)) ELSE messages
  /\ conversations' = Written(c, Doc(c), o)
  /\ resp' = Response("deleteConversation", o.status)
  /\ emitted' = deleteConversationEvents(Doc(c), userId)
  /\ UNCHANGED <<nextConv, nextMsg, now, key, page, inflight, window, client, codec, sockets>>

-----------------------------------------------------------------------------
(* Conversations with their last message *)

\* Conversation.methods.addMessage: the message becomes the conversation's
\* lastMessage (kept here as the reference the controller populates), joins
\* the message history, and is counted unread for everybody but its sender
addMessageDoc(d, m) ==
  LET entry   == [messageId |-> m, sender |-> messages[m].sender,
                  timestamp |-> messages[m].createdAt]
      pushed  == Append(d.messageHistory, entry)
      others  == {i \in 1..Len(d.participantDetails) :
                    d.participantDetails[i].user # messages[m].sender}
  IN [d EXCEPT
        !.lastMessage = m,
        !.messageHistory = IF Len(pushed) > HistoryCap
                             THEN SubSeq(pushed, Len(pushed) - HistoryCap + 1, Len(pushed))
                             ELSE pushed,
        !.participantDetails =
            [i \in 1..Len(@) |-> IF i \in others THEN [@[i] EXCEPT !.hasUnread = TRUE]
                                                 ELSE [@[i] EXCEPT !.lastRead = now]],
        !.unreadCount = @ + Cardinality(others)]

\* conversation.addMessage(message), once for a message of the conversation
addMessage(c, m) ==
  /\ Stored(c)
  /\ m \in DOMAIN messages
  /\ messages[m].conversationId = c
  /\ \A i \in 1..Len(conversations[c].messageHistory) :
         conversations[c].messageHistory[i].messageId # m
  /\ conversations' = [conversations EXCEPT ![c] = addMessageDoc(@, m)]
  /\ UNCHANGED <<messages, nextConv, nextMsg, now, key, resp, page, inflight, window, client, codec, emitted, sockets>>

\* .populate('lastMessage') found the message, and decryptMessage of its
\* content throws while the response is being formatted
formatThrows(d) ==
  /\ d.lastMessage \in DOMAIN messages
  /\ ~decryptMessage(messages[d.lastMessage].content).ok

\* exports.getConversationById: the formatting runs inside the handler's one
\* try block, whose catch answers 500
getConversationByIdAnswer(d, userId) ==
  IF getConversationByIdStatus(d, userId) = 404 THEN 404
  ELSE IF formatThrows(d) THEN 500 ELSE 200

getConversationById(c, userId) ==
  /\ resp' = Response("getById", getConversationByIdAnswer(Doc(c), userId))
  /\ emitted' = {}
  /\ UNCHANGED <<conversations, messages, nextConv, nextMsg, now, key, page, inflight, window, client, codec, sockets>>

\* exports.getConversations: one map over all conversations of the user
getConversationsStatus(userId) ==
  IF \E c \in DOMAIN conversations :
       Includes(conversations[c].participants, userId) /\ formatThrows(conversations[c])
    THEN 500 ELSE 200

getConversations(userId) ==
  /\ resp' = Response("getConversations", getConversationsStatus(userId))
  /\ emitted' = {}
  /\ UNCHANGED <<conversations, messages, nextConv, nextMsg, now, key, page, inflight, window, client, codec, sockets>>

\* the server clock advances
Tick ==
  /\ now < MaxTime
  /\ now' = now + 1
  /\ UNCHANGED <<conversations, messages, nextConv, nextMsg, key, resp, page, inflight, window, client, codec, emitted, sockets>>

\* the process is restarted with another ENCRYPTION_KEY
Restart(k) ==
  /\ k # key
  /\ \A w \in Workers : inflight[w] = Idle
  /\ key' = k
  /\ UNCHANGED <<conversations, messages, nextConv, nextMsg, now, resp, page, inflight, window, client, codec, emitted, sockets>>

-----------------------------------------------------------------------------
Init ==
  /\ conversations = <<>>
  /\ messages = <<>>
  /\ nextConv = 1
  /\ nextMsg = 1
  /\ now = 0
  /\ key = "k1"
  /\ resp = NoResponse
  /\ page = NoPage
  /\ inflight = [w \in Workers |-> Idle]
  /\ window = NoWindow
  /\ client = NoClient
  /\ codec = NoCall
  /\ emitted = {}
  /\ sockets = NoSockets

\* arrays of an update request: at most MaxReqIds ids in all
UpdateBodies ==
  {b \in IdLists(MaxReqIds) \X IdLists(MaxReqIds) \X IdLists(MaxReqIds) :
     Len(b[1]) + Len(b[2]) + Len(b[3]) <= MaxReqIds}

\* users are interchangeable: the one who creates the group is called u1
Creators == {"u1"}

Next ==
  \/ \E u \in Creators, ps \in IdLists(MaxReqIds) : createGroupConversation(u, ps)
  \/ \E c \in GroupIds, u \in Users : leaveGroup(c, u)
  \/ \E c \in GroupIds, u \in Users, p \in Users : removeParticipantFromGroup(c, u, p)
  \/ \E c \in GroupIds, u \in Users, ps \in IdLists(MaxReqIds) : addParticipantsToGroup(c, u, ps)
  \/ \E c \in GroupIds, u \in Users, b \in UpdateBodies :
        updateGroupConversation(c, u, b[1], b[2], b[3])
  \/ \E c \in GroupIds, u \in Users : deleteConversation(c, u)
  \/ \E c \in GroupIds, u \in Users : getConversationById(c, u)

Spec == Init /\ [][Next]_vars

-----------------------------------------------------------------------------
(* Group teardown with messages in the group *)

NextTeardown ==
  \/ \E u \in Users, ps \in IdLists(MaxReqIds) : createGroupConversation(u, ps)
  \/ \E c \in GroupIds, u \in Users : leaveGroup(c, u)
  \/ \E c \in GroupIds, u \in Users, p \in Users : removeParticipantFromGroup(c, u, p)
  \/ \E c \in GroupIds, u \in Users, r \in Users, t \in Plaintexts : sendMessage(c, u, r, t)
  \/ \E c \in GroupIds, u \in Users : deleteConversation(c, u)
  \/ \E c \in GroupIds, u \in Users : getConversationById(c, u)

SpecTeardown == Init /\ [][NextTeardown]_vars

-----------------------------------------------------------------------------
(* Sending and paging, in a group u1 created with u2; u3 is an outsider *)

InitMsg ==
  /\ conversations = (1 :> createGroupDoc("u1", <<"u2">>))
  /\ messages = <<>>
  /\ nextConv = 2
  /\ nextMsg = 1
  /\ now = 0
  /\ key = "k1"
  /\ resp = NoResponse
  /\ page = NoPage
  /\ inflight = [w \in Workers |-> Idle]
  /\ window = NoWindow
  /\ client = NoClient
  /\ codec = NoCall
  /\ emitted = {}
  /\ sockets = OneSocketEach

\* conversation ids a client may name: the group and an id no document has
NamedIds == 1..2
Cursors == {NoCursor} \cup (0..MaxTime)
\* message ids a client may name: those sent and an id no message has
NamedMsgs == 1..(MaxMsgs + 1)

NextMsg ==
  \/ \E c \in NamedIds, u \in Users, r \in Users, t \in Plaintexts : sendMessage(c, u, r, t)
  \/ \E c \in NamedIds, u \in Users, r \in Users, t \in Plaintexts, iv \in IVs :
        socketSendMessage(c, u, r, t, iv)
  \/ \E c \in NamedIds, u \in Users, l \in 1..MaxLimit, b \in Cursors : getMessages(c, u, l, b)
  \/ Tick
  \/ \E k \in Keys : Restart(k)

SpecMsg == InitMsg /\ [][NextMsg]_vars

-----------------------------------------------------------------------------
(* Sending over live connections.  The group is the one u1 created with u2; *)
(* u3 is an outsider.  Clients connect with or without a valid token, send  *)
(* over their socket or over HTTP, disconnect at any moment, fetch the      *)
(* newest page of the conversation, and delete the conversation.            *)

\* the sends suspended at `await message.save()`
PendingSends == {s \in SocketIds : sockets[s].pending # NoSend}

\* a content that is not there, or is the empty string: `!data.content`
NoContent == Plain("")

\* a send_message handler that does not look at recipientId
fieldsPresentButRecipient(c, recipientId, content) == content # NoContent /\ c # 0

\* the handler's check of the required fields, negated: a conversationId or
\* recipientId that is not there is 0 or None here
fieldsPresent(c, recipientId, content) ==
  content # NoContent /\ recipientId # None /\ c # 0

\* socket.on('send_message') up to `await message.save()`, or to its return
\* after socket.emit('error', { message: 'Missing required fields' })
beginSend(s, c, recipientId, content, iv) ==
  /\ Connected(s) /\ sockets[s].handlers
  /\ sockets[s].pending = NoSend
  /\ IF fieldsPresent(c, recipientId, content)
       THEN /\ nextMsg + Cardinality(PendingSends) <= MaxMsgs
            /\ sockets' = [sockets EXCEPT ![s].pending =
                 [conversationId |-> c, recipientId |-> recipientId, content |-> content,
                  iv |-> iv]]
            /\ emitted' = {}
       ELSE /\ sockets' = sockets
            /\ emitted' = {Event("error", s)}
  /\ UNCHANGED <<conversations, messages, nextConv, nextMsg, now, key, resp, page, inflight,
                 window, client, codec>>

\* the save returns: the two emits, whatever has become of the socket
finishSend(s) ==
  LET p == sockets[s].pending IN
  /\ p # NoSend
  /\ sendMessageOn(s, p.conversationId, p.recipientId, p.content, p.iv)
  /\ sockets' = [sockets EXCEPT ![s].pending = NoSend]

\* the connections opened while the sends are followed
LiveSockets == {"s1", "s2"}

\* whom the sends are addressed to: the other participant and the outsider
Recipients == {"u2", "u3"}

NextSock ==
  \/ \E s \in LiveSockets, t \in Tokens : connect(s, t)
  \/ \E s \in SocketIds : disconnect(s)
  \/ \E s \in SocketIds, c \in GroupIds, r \in Recipients, iv \in IVs :
        beginSend(s, c, r, Plain("hello"), iv)
  \/ \E s \in SocketIds : finishSend(s)
  \/ \E c \in GroupIds, u \in Users, r \in Recipients : sendMessage(c, u, r, Plain("hello"))
  \/ \E c \in GroupIds, u \in Recipients : getMessages(c, u, MaxLimit, NoCursor)
  \/ \E c \in GroupIds, u \in Users : deleteConversation(c, u)

InitSock ==
  /\ conversations = (1 :> createGroupDoc("u1", <<"u2">>))
  /\ messages = <<>>
  /\ nextConv = 2
  /\ nextMsg = 1
  /\ now = 0
  /\ key = "k1"
  /\ resp = NoResponse
  /\ page = NoPage
  /\ inflight = [w \in Workers |-> Idle]
  /\ window = NoWindow
  /\ client = NoClient
  /\ codec = NoCall
  /\ emitted = {}
  /\ sockets = NoSockets

SpecSock == InitSock /\ [][NextSock]_vars

-----------------------------------------------------------------------------
(* The events a connection emits: send_message with or without its fields,  *)
(* and typing.  Same group, same connections as above.                      *)

\* io.to(room).emit in place of socket.to(room).emit
typingEventToRoom(s, recipientId) ==
  [event |-> "user_typing", to |-> recipientId, userId |-> sockets[s].user]

\* socket.to(`user_${data.recipientId}`).emit('user_typing', {userId: socket.user.id, ...})
typingEvent(s, recipientId) ==
  [event |-> "user_typing", to |-> recipientId, userId |-> sockets[s].user, except |-> s]

\* socket.on('typing')
typing(s, recipientId) ==
  /\ Connected(s) /\ sockets[s].handlers
  /\ emitted' = {typingEvent(s, recipientId)}
  /\ UNCHANGED <<conversations, messages, nextConv, nextMsg, now, key, resp, page, inflight,
                 window, client, codec, sockets>>

\* what a send_message event carries as content: a text, or none
SentContents == {Plain("hello"), NoContent}

\* the users who connect here and are written to
EventUsers == {"u1", "u2"}

\* the tokens of the users who connect here, and no token
EventTokens == {t \in Tokens : t.user \in EventUsers \cup {None}}

NextEvents ==
  \/ \E s \in LiveSockets, t \in EventTokens : connect(s, t)
  \/ \E s \in SocketIds : disconnect(s)
  \/ \E s \in SocketIds, c \in GroupIds \cup {0}, r \in EventUsers \cup {None},
        content \in SentContents, iv \in IVs :
        beginSend(s, c, r, content, iv)
  \/ \E s \in SocketIds : finishSend(s)
  \/ \E s \in SocketIds, r \in EventUsers \cup {None} : typing(s, r)

SpecEvents == InitSock /\ [][NextEvents]_vars

-----------------------------------------------------------------------------
(* Messages sent in the group, then marked as read or deleted *)

NextReceipt ==
  \/ \E c \in GroupIds, u \in Users, r \in Users, t \in Plaintexts : sendMessage(c, u, r, t)
  \/ \E c \in GroupIds, u \in Users, r \in Users, t \in Plaintexts, iv \in IVs :
        socketSendMessage(c, u, r, t, iv)
  \/ \E m \in NamedMsgs, u \in Users : markAsRead(m, u)
  \/ \E m \in NamedMsgs, u \in Users : socketMessageRead(m, u)
  \/ \E m \in NamedMsgs, u \in Users : deleteMessage(m, u)

SpecReceipt == InitMsg /\ [][NextReceipt]_vars

-----------------------------------------------------------------------------
(* Group mutations by concurrent workers.  Each handler awaits twice where  *)
(* it touches the store: Conversation.findOne, then conversation.save() or  *)
(* Conversation.findByIdAndDelete; what lies between runs without           *)
(* interruption.  A worker between the two holds the copy it read.          *)

Request(op, c, user, target, participants, addAdmins, removeAdmins) ==
  [op |-> op, conv |-> c, user |-> user, target |-> target, participants |-> participants,
   addAdmins |-> addAdmins, removeAdmins |-> removeAdmins]

Holding(r, d) ==
  [op |-> r.op, conv |-> r.conv, user |-> r.user, target |-> r.target,
   participants |-> r.participants, addAdmins |-> r.addAdmins,
   removeAdmins |-> r.removeAdmins, snap |-> d]

RequestOf(h) ==
  Request(h.op, h.conv, h.user, h.target, h.participants, h.addAdmins, h.removeAdmins)

\* what the handler of request r decides on the copy d
OutcomeOf(r, d) ==
  CASE r.op = "leaveGroup"        -> leaveGroupOutcome(d, r.user)
    [] r.op = "removeParticipant" -> removeParticipantOutcome(d, r.user, r.target)
    [] r.op = "addParticipants"   -> addParticipantsOutcome(d, r.user, r.participants)
    [] r.op = "updateGroup"       ->
         updateGroupOutcome(d, r.user, r.participants, r.addAdmins, r.removeAdmins)

\* the events request r sends before its write, and after it
EarlyEventsOf(r, d) ==
  IF r.op = "updateGroup"
    THEN updateGroupEarlyEvents(d, r.user, r.participants, r.addAdmins, r.removeAdmins)
    ELSE {}

LateEventsOf(r, d) ==
  CASE r.op = "leaveGroup"        -> leaveGroupEvents(d, r.user)
    [] r.op = "removeParticipant" -> removeParticipantEvents(d, r.user, r.target)
    [] r.op = "addParticipants"   -> addParticipantsEvents(d, r.user, r.participants)
    [] r.op = "updateGroup"       ->
         updateGroupLateEvents(d, r.user, r.participants, r.addAdmins, r.removeAdmins)

AllIdle == \A w \in Workers : inflight[w].op = None

\* The handler up to its second await: findOne, the checks, the changes to
\* the copy.  An overlap is followed for one request per worker.  A request that a check answers with an early return holds
\* nothing across an await and writes nothing; those steps are the rejected
\* steps of Spec and are left out here.
Begin(w, r) ==
  LET d == Doc(r.conv)
      o == OutcomeOf(r, d)
  IN /\ inflight[w].op = None
     /\ o.write # "none"
     /\ AllIdle \/ window.n < Cardinality(Workers)
     /\ inflight' = [inflight EXCEPT ![w] = Holding(r, d)]
     /\ window' = IF AllIdle THEN [base |-> d, done |-> <<>>, n |-> 1]
                             ELSE [window EXCEPT !.n = @ + 1]
     /\ emitted' = EarlyEventsOf(r, d)
     /\ UNCHANGED <<conversations, messages, nextConv, nextMsg, now, key, resp, page, client, codec, sockets>>

\* save() of a document deleted since it was read matches nothing and throws
WriteStatus(h, o) == IF o.write = "save" /\ ~Stored(h.conv) THEN 500 ELSE o.status

\* the requests of the current overlap that were answered 200, w's included
DoneWith(w) ==
  LET h == inflight[w]
      o == OutcomeOf(RequestOf(h), h.snap)
  IN IF WriteStatus(h, o) = 200 THEN Append(window.done, RequestOf(h)) ELSE window.done

LastHolder(w) == \A v \in Workers \ {w} : inflight[v].op = None

\* the handler from its second await on: the write and the answer
Finish(w) ==
  LET h == inflight[w]
      o == OutcomeOf(RequestOf(h), h.snap)
  IN /\ h.op # None
     /\ conversations' = Written(h.conv, h.snap, o)
     /\ resp' = [op |-> h.op, status |-> WriteStatus(h, o), tick |-> 0]
     /\ inflight' = [inflight EXCEPT ![w] = Idle]
     /\ window' = IF LastHolder(w) THEN NoWindow ELSE [window EXCEPT !.done = DoneWith(w)]
     /\ emitted' = IF WriteStatus(h, o) = 500 THEN {} ELSE LateEventsOf(RequestOf(h), h.snap)
     /\ UNCHANGED <<messages, nextConv, nextMsg, now, key, page, client, codec, sockets>>

beginLeaveGroup(w, c, u) ==
  Begin(w, Request("leaveGroup", c, u, u, <<>>, <<>>, <<>>))

beginRemoveParticipant(w, c, u, p) ==
  Begin(w, Request("removeParticipant", c, u, p, <<>>, <<>>, <<>>))

beginAddParticipants(w, c, u, ps) ==
  Begin(w, Request("addParticipants", c, u, None, ps, <<>>, <<>>))

beginUpdateGroup(w, c, u, ps, aa, ra) ==
  Begin(w, Request("updateGroup", c, u, None, ps, aa, ra))

\* the users whose requests overlap
ConcUsers == {"u1", "u2"}

\* the id lists carried by overlapping requests
ConcLists == {<<>>} \cup {<<u>> : u \in ConcUsers}

\* arrays of an overlapping update request: at most one of them is filled
ConcUpdateBodies ==
  {b \in ConcLists \X ConcLists \X ConcLists : Len(b[1]) + Len(b[2]) + Len(b[3]) <= 1}

\* workers are interchangeable: a request is taken by the first idle one
FirstIdle(w) == inflight[w].op = None /\ (w = "w2" => inflight["w1"].op # None)

NextConc ==
  \/ \E u \in Users, ps \in IdLists(MaxReqIds) :
        AllIdle /\ createGroupConversation(u, ps)
  \/ \E w \in Workers, c \in GroupIds, u \in ConcUsers :
        FirstIdle(w) /\ beginLeaveGroup(w, c, u)
  \/ \E w \in Workers, c \in GroupIds, u \in ConcUsers, p \in ConcUsers :
        FirstIdle(w) /\ beginRemoveParticipant(w, c, u, p)
  \/ \E w \in Workers, c \in GroupIds, u \in ConcUsers, ps \in ConcLists :
        FirstIdle(w) /\ beginAddParticipants(w, c, u, ps)
  \/ \E w \in Workers, c \in GroupIds, u \in ConcUsers, b \in ConcUpdateBodies :
        FirstIdle(w) /\ beginUpdateGroup(w, c, u, b[1], b[2], b[3])
  \/ \E w \in Workers : Finish(w)

SpecConc == Init /\ [][NextConc]_vars

-----------------------------------------------------------------------------
(* Direct conversations: Conversation.findOrCreateDirect *)

\* a lookup that matches the two ids in the order given
DirectMatchesInOrder(user1Id, user2Id) ==
  {c \in DOMAIN conversations :
     ~conversations[c].isGroup /\ conversations[c].participants = <<user1Id, user2Id>>}

\* Conversation.findOne({isGroup: false, participants: {$all: [...], $size: 2}})
DirectMatches(user1Id, user2Id) ==
  {c \in DOMAIN conversations :
     /\ ~conversations[c].isGroup
     /\ Includes(conversations[c].participants, user1Id)
     /\ Includes(conversations[c].participants, user2Id)
     /\ Len(conversations[c].participants) = 2}

\* new this({participants: [user1Id, user2Id], isGroup: false, ...})
DirectDoc(user1Id, user2Id) ==
  [GroupDoc(FALSE, <<user1Id, user2Id>>, <<>>)
     EXCEPT !.participantDetails = <<Detail(user1Id), Detail(user2Id)>>]

\* the conversation handed back to the caller
Returned(c, user1Id, user2Id) ==
  [op |-> "findOrCreateDirect", status |-> 200, tick |-> 1 - resp.tick,
   conv |-> c, user1 |-> user1Id, user2 |-> user2Id]

\* one call running to its end with no other call in between
findOrCreateDirect(user1Id, user2Id) ==
  /\ IF DirectMatches(user1Id, user2Id) # {}
       THEN /\ \E c \in DirectMatches(user1Id, user2Id) : resp' = Returned(c, user1Id, user2Id)
            /\ UNCHANGED <<conversations, nextConv>>
       ELSE /\ nextConv <= MaxConvs
            /\ conversations' = (nextConv :> DirectDoc(user1Id, user2Id)) @@ conversations
            /\ nextConv' = nextConv + 1
            /\ resp' = Returned(nextConv, user1Id, user2Id)
  /\ emitted' = {}
  /\ UNCHANGED <<messages, nextMsg, now, key, page, inflight, window, client, codec, sockets>>

NextDirect ==
  \/ \E u \in Users, ps \in IdLists(MaxReqIds) : createGroupConversation(u, ps)
  \/ \E a \in Users, b \in Users : findOrCreateDirect(a, b)

SpecDirect == Init /\ [][NextDirect]_vars

\* The call up to `await conversation.save()`: the lookup and, when it finds
\* nothing, the new document held in memory.
beginFindOrCreateDirect(w, user1Id, user2Id) ==
  /\ inflight[w].op = None
  /\ IF DirectMatches(user1Id, user2Id) # {}
       THEN /\ \E c \in DirectMatches(user1Id, user2Id) : resp' = Returned(c, user1Id, user2Id)
            /\ UNCHANGED inflight
       ELSE /\ nextConv + Cardinality({v \in Workers : inflight[v].op # None}) <= MaxConvs
            /\ inflight' = [inflight EXCEPT ![w] =
                 [op |-> "findOrCreateDirect", user1 |-> user1Id, user2 |-> user2Id]]
            /\ UNCHANGED resp
  /\ emitted' = {}
  /\ UNCHANGED <<conversations, messages, nextConv, nextMsg, now, key, page, window, client, codec, sockets>>

\* conversation.save() of the new document, and the return
finishFindOrCreateDirect(w) ==
  /\ inflight[w].op = "findOrCreateDirect"
  /\ conversations' =
       (nextConv :> DirectDoc(inflight[w].user1, inflight[w].user2)) @@ conversations
  /\ nextConv' = nextConv + 1
  /\ resp' = Returned(nextConv, inflight[w].user1, inflight[w].user2)
  /\ inflight' = [inflight EXCEPT ![w] = Idle]
  /\ emitted' = {}
  /\ UNCHANGED <<messages, nextMsg, now, key, page, window, client, codec, sockets>>

NextDirectConc ==
  \/ \E w \in Workers, a \in ConcUsers, b \in ConcUsers :
        FirstIdle(w) /\ beginFindOrCreateDirect(w, a, b)
  \/ \E w \in Workers : finishFindOrCreateDirect(w)

SpecDirectConc == Init /\ [][NextDirectConc]_vars

-----------------------------------------------------------------------------
(* Direct conversations under the requests that change membership *)

\* ConversationSchema.methods.isParticipant
isParticipant(d, userId) == Includes(d.participants, userId)

\* ConversationSchema.methods.addParticipant: throws on a direct conversation
addParticipantOutcome(d, userId) ==
  IF ~d.isGroup THEN Reject(500)
  ELSE IF isParticipant(d, userId) THEN Reject(200)
  ELSE Save(Append(d.participants, userId), d.admins)

\* ConversationSchema.methods.removeParticipant: throws on a direct conversation
removeParticipantMethodOutcome(d, userId) ==
  IF ~d.isGroup THEN Reject(500)
  ELSE IF ~isParticipant(d, userId) THEN Reject(200)
  ELSE Save(FilterOut(d.participants, userId), d.admins)

\* the entry both methods push on messageHistory: a system message under a
\* fresh ObjectId (0: the _id of no stored message)
SystemEntry(d, by) ==
  [messageId |-> 0, sender |-> IF by # None THEN by ELSE d.createdBy, timestamp |-> now]

\* addParticipant past its two early exits: the document handed to save()
addParticipantDoc(d, userId, addedBy) ==
  [d EXCEPT !.participants = Append(@, userId),
            !.participantDetails = Append(@, Detail(userId)),
            !.messageHistory = Append(@, SystemEntry(d, addedBy))]

\* removeParticipant past its two early exits: the document handed to save()
removeParticipantDoc(d, userId, removedBy) ==
  [d EXCEPT !.participants = FilterOut(@, userId),
            !.participantDetails = SelectSeq(@, LAMBDA p : p.user # userId),
            !.messageHistory = Append(@, SystemEntry(d, removedBy))]

\* the method called on the stored conversation c; status 500 stands for the
\* Error it throws, 200 for a return
addParticipant(c, userId, addedBy) ==
  LET o == addParticipantOutcome(Doc(c), userId) IN
  /\ Stored(c)
  /\ conversations' = IF o.write = "save"
                         THEN [conversations EXCEPT ![c] = addParticipantDoc(@, userId, addedBy)]
                         ELSE conversations
  /\ resp' = Response("addParticipant", o.status)
  /\ emitted' = {}
  /\ UNCHANGED <<messages, nextConv, nextMsg, now, key, page, inflight, window, client, codec, sockets>>

removeParticipant(c, userId, removedBy) ==
  LET o == removeParticipantMethodOutcome(Doc(c), userId) IN
  /\ Stored(c)
  /\ conversations' = IF o.write = "save"
                         THEN [conversations EXCEPT ![c] = removeParticipantDoc(@, userId, removedBy)]
                         ELSE conversations
  /\ resp' = Response("removeParticipant()", o.status)
  /\ emitted' = {}
  /\ UNCHANGED <<messages, nextConv, nextMsg, now, key, page, inflight, window, client, codec, sockets>>

\* conversation ids a request may name
ConvIds == 1..MaxConvs

\* request arrays of at most one id
ShortLists == IdLists(1)

NextFixed ==
  \/ \E a \in ConcUsers, b \in ConcUsers : findOrCreateDirect(a, b)
  \/ \E c \in ConvIds, u \in Users : leaveGroup(c, u)
  \/ \E c \in ConvIds, u \in Users, p \in Users : removeParticipantFromGroup(c, u, p)
  \/ \E c \in ConvIds, u \in Users, ps \in ShortLists : addParticipantsToGroup(c, u, ps)
  \/ \E c \in ConvIds, u \in Users, ps \in ShortLists, aa \in ShortLists :
        updateGroupConversation(c, u, ps, aa, <<>>)
  \/ \E c \in ConvIds, u \in Users : addParticipant(c, u, None)
  \/ \E c \in ConvIds, u \in Users : removeParticipant(c, u, None)
  \/ \E c \in ConvIds, u \in Users : deleteConversation(c, u)

SpecFixed == Init /\ [][NextFixed]_vars

-----------------------------------------------------------------------------
(* Reading a conversation page by page.  The group is the one u1 created    *)
(* with u2; its messages were stored earlier: encrypted by the socket path  *)
(* under the present key or under the key of an earlier run, or stored as   *)
(* received by the HTTP path.  Two saves may fall into the same millisecond.*)

PageTimes == 0..MaxTime

\* what the send paths may have stored: two texts encrypted under the present
\* key, one under an earlier key, one stored as received
PageContents ==
  {[iv |-> "iv1", key |-> "k1", text |-> "hello"], [iv |-> "iv1", key |-> "k1", text |-> "bye"],
   [iv |-> "iv1", key |-> "k2", text |-> "hello"], Plain("hello")}

\* a message of the group as one of the send paths stored it at time t
StoredMessage(t, content) ==
  [conversationId |-> 1, sender |-> "u1", recipient |-> "u2",
   content |-> content, isEncrypted |-> TRUE, read |-> FALSE, createdAt |-> t,
   sent |-> [text |-> Plain(content.text),
             key |-> IF IsEnvelope(content) THEN content.key ELSE "k1"],
   authorised |-> TRUE]

\* the stores of n messages, _ids in the order of the saves
MessageStores(n) ==
  {[i \in 1..n |-> StoredMessage(f[i][1], f[i][2])] :
     f \in {g \in [1..n -> PageTimes \X PageContents] :
              \A i, j \in 1..n : i < j => g[i][1] <= g[j][1]}}

InitPage ==
  /\ conversations = (1 :> createGroupDoc("u1", <<"u2">>))
  /\ messages \in UNION {MessageStores(n) : n \in 0..MaxPageMsgs}
  /\ nextConv = 2
  /\ nextMsg = Len(messages) + 1
  /\ now = MaxTime
  /\ key = "k1"
  /\ resp = NoResponse
  /\ page = NoPage
  /\ inflight = [w \in Workers |-> Idle]
  /\ window = NoWindow
  /\ client = NoClient
  /\ codec = NoCall
  /\ emitted = {}
  /\ sockets = NoSockets

\* the client opens the conversation with the page size it uses
startPaging(limit) ==
  /\ client = NoClient
  /\ client' = [limit |-> limit, cursor |-> NoCursor, collected |-> <<>>, done |-> FALSE]
  /\ UNCHANGED <<conversations, messages, nextConv, nextMsg, now, key, resp, page,
                 inflight, window, codec, emitted, sockets>>

\* The client asks for the next page, `before` being the createdAt of the
\* oldest message it was given, puts the page in front of what it has and
\* stops when hasMore is false.
fetchNextPage ==
  /\ client.limit >= 1
  /\ ~client.done
  /\ getMessagesHandler(1, "u1", client.limit, client.cursor)
  /\ client' = [client EXCEPT
       !.collected = [i \in 1..Len(page'.messages) |-> page'.messages[i].id] \o @,
       !.cursor    = IF Len(page'.messages) > 0
                       THEN messages[page'.messages[1].id].createdAt ELSE @,
       !.done      = ~page'.hasMore]
  /\ UNCHANGED codec

NextPage ==
  \/ \E l \in 1..MaxLimit : startPaging(l)
  \/ fetchNextPage

SpecPage == InitPage /\ [][NextPage]_vars

\* listing the conversations of that store
NextList ==
  \/ \E c \in NamedIds, m \in 1..MaxPageMsgs : addMessage(c, m)
  \/ \E u \in Users : getConversations(u)
  \/ \E c \in NamedIds, u \in Users : getConversationById(c, u)
  \/ \E m \in 1..MaxPageMsgs, u \in Users : deleteMessage(m, u)

SpecList == InitPage /\ [][NextList]_vars

-----------------------------------------------------------------------------
(* The two codecs at the level of the strings they exchange.  A string is   *)
(* the sequence of its pieces between ':' delimiters, which is what         *)
(* split(':') makes of it.  A piece is 32 hex digits (16 bytes), hex digits *)
(* of another length, the hex of an AES-256-CBC ciphertext, text that is    *)
(* not hex, or empty.  CBC carries no authentication: a ciphertext deciphered*)
(* under another key is rejected only if its last block does not end in     *)
(* valid padding, and `stray` marks the ciphertexts for which it does.      *)

Piece(kind, k, iv, label, plain, stray) ==
  [kind |-> kind, key |-> k, iv |-> iv, label |-> label, plain |-> plain, stray |-> stray]

HexIv(iv)  == Piece("iv", NoKey, iv, "", <<>>, FALSE)
ShortHex   == Piece("shorthex", NoKey, NoIv, "", <<>>, FALSE)
Junk(t)    == Piece("junk", NoKey, NoIv, t, <<>>, FALSE)
EmptyPiece == Piece("empty", NoKey, NoIv, "", <<>>, FALSE)
Cipher(k, iv, plain, stray) == Piece("ct", k, iv, "", plain, stray)

\* the plaintexts: "", "hello" and "a:b"
EmptyString == <<EmptyPiece>>
PlainStrings == {EmptyString, <<Junk("hello")>>, <<Junk("a"), Junk("b")>>}

\* what deciphering under a key the ciphertext was not made with gives when
\* the padding happens to be valid
Garbage == <<Junk("garbage")>>

Threw == [ok |-> FALSE, value |-> <<>>]
Gave(v) == [ok |-> TRUE, value |-> v]

\* decipher.update(...) + decipher.final() on the bytes of piece c with a
\* 16-byte iv: bytes that are no whole ciphertext make final() throw
Decipher(c, k) ==
  IF c.kind # "ct" THEN Threw
  ELSE IF c.key = k THEN Gave(c.plain)
  ELSE IF c.stray THEN Gave(Garbage) ELSE Threw

\* an encryptMessage that hands an empty text back as encrypt does
encryptMessageUnlessEmpty(text, iv, stray) ==
  IF text = EmptyString THEN text ELSE <<HexIv(iv), Cipher(key, iv, text, stray)>>

\* utils/crypto.js encryptMessage(text), with the random iv and the padding
\* luck of the ciphertext drawn
encryptMessageString(text, iv, stray) == <<HexIv(iv), Cipher(key, iv, text, stray)>>

\* utils/crypto.js decryptMessage(text): the first piece is the iv, the other
\* pieces are joined with ':' again and read as hex, which stops at the first
\* character that is not a hex digit, so at the end of the second piece
decryptMessageString(text) ==
  IF text[1].kind # "iv" THEN Threw
  ELSE IF Len(text) = 1 THEN Threw
  ELSE Decipher(text[2], key)

\* utils/encryption.js encrypt(text)
encrypt(text, iv, stray) ==
  IF text = EmptyString THEN text ELSE <<HexIv(iv), Cipher(key, iv, text, stray)>>

\* utils/encryption.js decrypt(encryptedText): only the first two pieces are
\* looked at, and the input is handed back whenever something is wrong
decrypt(encryptedText) ==
  IF encryptedText = EmptyString THEN Gave(encryptedText)
  ELSE IF encryptedText[1].kind = "empty" \/ Len(encryptedText) = 1
          \/ encryptedText[2].kind = "empty" THEN Gave(encryptedText)
  ELSE IF encryptedText[1].kind # "iv" THEN Gave(encryptedText)
  ELSE IF Decipher(encryptedText[2], key).ok THEN Decipher(encryptedText[2], key)
  ELSE Gave(encryptedText)

\* the pieces of the strings handed to the decrypting functions
Pieces ==
  {HexIv(iv) : iv \in IVs} \cup {ShortHex, Junk("hello"), EmptyPiece}
    \cup {Cipher(k, iv, <<Junk("hello")>>, b) : k \in Keys, iv \in IVs, b \in BOOLEAN}

\* the strings handed to them: up to MaxPieces pieces; a first piece is not
\* itself a ciphertext, a second one not a bare iv
CodecInputs ==
  {w \in UNION {[1..n -> Pieces] : n \in 1..MaxPieces} :
     /\ w[1].kind # "ct"
     /\ Len(w) >= 2 => w[2].kind # "iv"}

\* a call, `of` being the plaintext the input was encrypted from when the
\* input is what the encrypting function just returned
Call(fn, input, of, result) ==
  [fn |-> fn, input |-> input, of |-> of, key |-> key, ok |-> result.ok,
   value |-> result.value]

callEncryptMessage(text, iv, stray) ==
  /\ codec' = Call("encryptMessage", text, <<>>, Gave(encryptMessageString(text, iv, stray)))
  /\ UNCHANGED <<conversations, messages, nextConv, nextMsg, now, key, resp, page,
                 inflight, window, client, emitted, sockets>>

callEncrypt(text, iv, stray) ==
  /\ codec' = Call("encrypt", text, <<>>, Gave(encrypt(text, iv, stray)))
  /\ UNCHANGED <<conversations, messages, nextConv, nextMsg, now, key, resp, page,
                 inflight, window, client, emitted, sockets>>

callDecryptMessage(text, of) ==
  /\ codec' = Call("decryptMessage", text, of, decryptMessageString(text))
  /\ UNCHANGED <<conversations, messages, nextConv, nextMsg, now, key, resp, page,
                 inflight, window, client, emitted, sockets>>

callDecrypt(encryptedText, of) ==
  /\ codec' = Call("decrypt", encryptedText, of, decrypt(encryptedText))
  /\ UNCHANGED <<conversations, messages, nextConv, nextMsg, now, key, resp, page,
                 inflight, window, client, emitted, sockets>>

\* what an encrypting function returned is decrypted by its counterpart
decryptMessageOfEncrypted ==
  codec.fn = "encryptMessage" /\ callDecryptMessage(codec.value, codec.input)

decryptOfEncrypted ==
  codec.fn = "encrypt" /\ callDecrypt(codec.value, codec.input)

NextCodec ==
  \/ \E t \in PlainStrings, iv \in IVs, b \in BOOLEAN : callEncryptMessage(t, iv, b)
  \/ \E t \in PlainStrings, iv \in IVs, b \in BOOLEAN : callEncrypt(t, iv, b)
  \/ \E w \in CodecInputs : callDecryptMessage(w, <<>>)
  \/ \E w \in CodecInputs : callDecrypt(w, <<>>)
  \/ decryptMessageOfEncrypted
  \/ decryptOfEncrypted
  \/ \E k \in Keys : Restart(k)

SpecCodec == Init /\ [][NextCodec]_vars

-----------------------------------------------------------------------------
(* The unread projection of a conversation: addMessage and markAsRead of    *)
(* the conversation schema, on the group u1 created with u2 and u3 at time  *)
(* 0.  Its messages were stored by the participants since then; addMessage  *)
(* takes them up one by one in the order of the saves.                      *)

\* ConversationSchema.methods.markAsRead, the participant found
markAsReadDoc(d, userId) ==
  LET mine    == {i \in 1..Len(d.participantDetails) : d.participantDetails[i].user = userId}
      first   == CHOOSE j \in mine : \A k \in mine : j <= k
      details == [i \in 1..Len(d.participantDetails) |->
                    IF i = first
                      THEN [d.participantDetails[i] EXCEPT !.hasUnread = FALSE, !.lastRead = now]
                      ELSE d.participantDetails[i]]
  IN [d EXCEPT
        !.participantDetails = details,
        !.unreadCount = Cardinality({i \in 1..Len(details) : details[i].hasUnread})]

\* conversation.markAsRead(userId); without the participant nothing is saved
conversationMarkAsRead(c, userId) ==
  /\ Stored(c)
  /\ conversations' =
       IF \E i \in 1..Len(conversations[c].participantDetails) :
            conversations[c].participantDetails[i].user = userId
         THEN [conversations EXCEPT ![c] = markAsReadDoc(@, userId)]
         ELSE conversations
  /\ resp' = Response("conversation.markAsRead", 200)
  /\ emitted' = {}
  /\ UNCHANGED <<messages, nextConv, nextMsg, now, key, page, inflight, window, client, codec, sockets>>

\* ConversationSchema.methods.getUnreadCount
getUnreadCount(d, userId) ==
  LET mine == {i \in 1..Len(d.participantDetails) : d.participantDetails[i].user = userId}
  IN IF mine = {} THEN 0
     ELSE LET participant == d.participantDetails[CHOOSE j \in mine : \A k \in mine : j <= k]
          IN Cardinality({i \in 1..Len(d.messageHistory) :
                            /\ d.messageHistory[i].timestamp > participant.lastRead
                            /\ d.messageHistory[i].sender # userId})

\* a message one participant of the group sent to another at time t
UnreadMessage(sender, recipient, t) ==
  [StoredMessage(t, [iv |-> "iv1", key |-> "k1", text |-> "hello"])
     EXCEPT !.sender = sender, !.recipient = recipient]

\* the stores of n such messages, _ids in the order of the saves
UnreadStores(n) ==
  {[i \in 1..n |-> UnreadMessage(f[i][1], f[i][2], f[i][3])] :
     f \in {g \in [1..n -> ConcUsers \X ConcUsers \X PageTimes] :
              /\ \A i \in 1..n : g[i][1] # g[i][2]
              /\ \A i, j \in 1..n : i < j => g[i][3] <= g[j][3]}}

InitUnread ==
  /\ now = 0
  /\ conversations = (1 :> preSave(createGroupDoc("u1", <<"u2", "u3">>)))
  /\ messages \in UNION {UnreadStores(n) : n \in 0..MaxPageMsgs}
  /\ nextConv = 2
  /\ nextMsg = Len(messages) + 1
  /\ key = "k1"
  /\ resp = NoResponse
  /\ page = NoPage
  /\ inflight = [w \in Workers |-> Idle]
  /\ window = NoWindow
  /\ client = NoClient
  /\ codec = NoCall
  /\ emitted = {}
  /\ sockets = NoSockets

NextUnread ==
  \/ \E m \in DOMAIN messages :
        /\ messages[m].createdAt <= now
        /\ Len(conversations[1].messageHistory) = m - 1
        /\ addMessage(1, m)
  \/ \E u \in Users : conversationMarkAsRead(1, u)
  \/ Tick

SpecUnread == InitUnread /\ [][NextUnread]_vars

-----------------------------------------------------------------------------
(* The Conversation model next to the controller: the static createGroup    *)
(* and the methods addParticipant and removeParticipant, and the group      *)
(* handlers of the controller, on one store.  The model keeps the admins of *)
(* a group under groupInfo.admins and the handlers under admins; both are   *)
(* the `admins` of the document here.  The participantDetails of a group,   *)
(* which no handler of the controller reads, are followed here and with the *)
(* unread projection only.                                                  *)

\* a createGroup that takes the participant list as it was given
createGroupNewAsGiven(creatorId, participants) ==
  [GroupDoc(TRUE, participants, <<creatorId>>) EXCEPT
     !.createdBy = creatorId,
     !.participantDetails = [i \in 1..Len(participants) |-> Detail(participants[i])]]

\* ConversationSchema.statics.createGroup: `new this({...})`
createGroupNew(creatorId, participants) ==
  LET allParticipants == Dedup(<<creatorId>> \o participants) IN
  [GroupDoc(TRUE, allParticipants, <<creatorId>>) EXCEPT
     !.createdBy = creatorId,
     !.participantDetails = [i \in 1..Len(allParticipants) |-> Detail(allParticipants[i])]]

\* exports.createGroupConversation with the participantDetails followed that
\* the pre-save hook gives the new document
createGroupConversationSaved(creatorId, participants) ==
  /\ nextConv \in GroupIds
  /\ conversations' =
       (nextConv :> preSave(createGroupDoc(creatorId, participants))) @@ conversations
  /\ nextConv' = nextConv + 1
  /\ resp' = Response("createGroup", 201)
  /\ emitted' = createGroupEvents(creatorId, participants)
  /\ UNCHANGED <<messages, nextMsg, now, key, page, inflight, window, client, codec, sockets>>

\* Conversation.createGroup(creatorId, name, participants)
createGroup(creatorId, participants) ==
  /\ nextConv \in GroupIds
  /\ conversations' =
       (nextConv :> preSave(createGroupNew(creatorId, participants))) @@ conversations
  /\ nextConv' = nextConv + 1
  /\ resp' = Response("Conversation.createGroup", 200)
  /\ emitted' = {}
  /\ UNCHANGED <<messages, nextMsg, now, key, page, inflight, window, client, codec, sockets>>

\* whom a method call names as the one who added or removed: nobody, so that
\* the system message is the creator's
Actors == {None}

\* the method calls followed per conversation
MaxCalls == 2

NextModel ==
  \/ \E u \in Creators, ps \in IdLists(MaxReqIds) : createGroupConversationSaved(u, ps)
  \/ \E u \in Creators, ps \in IdLists(MaxReqIds) : createGroup(u, ps)
  \/ \E c \in GroupIds, u \in Users, by \in Actors :
        /\ Len(Doc(c).messageHistory) < MaxCalls
        /\ addParticipant(c, u, by)
  \/ \E c \in GroupIds, u \in Users, by \in Actors :
        /\ Len(Doc(c).messageHistory) < MaxCalls
        /\ removeParticipant(c, u, by)
  \/ \E c \in GroupIds, u \in Users, p \in Users : removeParticipantFromGroup(c, u, p)
  \/ \E c \in GroupIds, u \in Users, ps \in ShortLists : addParticipantsToGroup(c, u, ps)
  \/ \E c \in GroupIds, u \in Users : leaveGroup(c, u)

SpecModel == Init /\ [][NextModel]_vars

-----------------------------------------------------------------------------
(* The message history of a long-lived group.  u1 created the group with    *)
(* u2; since then u3 has been added and removed in turn, each               *)
(* call leaving its system message, until the history is one entry short of *)
(* the cap.  The participants have stored a few messages meanwhile.         *)

\* the group after n calls that in turn add and remove u3: n system messages
\* of the creator, and u3 in the group after an odd number of calls
Turnover(n) ==
  LET group == preSave(createGroupNew("u1", <<"u2">>)) IN
  [group EXCEPT
     !.participants = IF n % 2 = 1 THEN Append(@, "u3") ELSE @,
     !.participantDetails = IF n % 2 = 1 THEN Append(@, Detail("u3")) ELSE @,
     !.messageHistory = [i \in 1..n |-> SystemEntry(group, None)]]

InitHistory ==
  /\ now = MaxTime
  /\ conversations = (1 :> Turnover(HistoryCap - 1))
  /\ messages \in UNION {UnreadStores(n) : n \in 0..MaxPageMsgs}
  /\ nextConv = 2
  /\ nextMsg = Len(messages) + 1
  /\ key = "k1"
  /\ resp = NoResponse
  /\ page = NoPage
  /\ inflight = [w \in Workers |-> Idle]
  /\ window = NoWindow
  /\ client = NoClient
  /\ codec = NoCall
  /\ emitted = {}
  /\ sockets = NoSockets

NextHistory ==
  \/ \E m \in DOMAIN messages : addMessage(1, m)
  \/ /\ Len(Doc(1).messageHistory) < HistoryCap + MaxCalls
     /\ addParticipant(1, "u3", None)
  \/ /\ Len(Doc(1).messageHistory) < HistoryCap + MaxCalls
     /\ removeParticipant(1, "u3", None)

SpecHistory == InitHistory /\ [][NextHistory]_vars

-----------------------------------------------------------------------------
(* A member departs.  The group is the one u1 created with u2, each user    *)
(* with one live connection; u2 leaves or is removed, nobody is added, and  *)
(* everybody goes on reading and sending.                                   *)

\* Conversation.find({ participants: userId }) of getConversations
getConversationsFinds(userId) ==
  {c \in DOMAIN conversations : Includes(conversations[c].participants, userId)}

NextDeparted ==
  \/ \E c \in GroupIds, u \in Users : leaveGroup(c, u)
  \/ \E c \in GroupIds, u \in Users, p \in Users : removeParticipantFromGroup(c, u, p)
  \/ \E c \in GroupIds, u \in Users, r \in Users : sendMessage(c, u, r, Plain("hello"))
  \/ \E c \in GroupIds, u \in Users, r \in Users, iv \in IVs :
        socketSendMessage(c, u, r, Plain("hello"), iv)
  \/ \E c \in GroupIds, u \in Users : getMessages(c, u, MaxLimit, NoCursor)
  \/ \E c \in GroupIds, u \in Users : getConversationById(c, u)
  \/ \E u \in Users : getConversations(u)

SpecDeparted == InitMsg /\ [][NextDeparted]_vars

-----------------------------------------------------------------------------
(* Properties of group membership under requests handled one at a time *)

Groups == {c \in DOMAIN conversations : conversations[c].isGroup}
Participants(c) == SetOf(Doc(c).participants)
Admins(c) == SetOf(Doc(c).admins)

\* C1: in every group, after any sequence of createGroup, addParticipants,
\* removeParticipant, leave and updateGroup requests, every admin is a participant.
C1_AdminsAreParticipants == \A c \in Groups : Admins(c) \subseteq Participants(c)

\* a removal or a leave succeeded in a group that still has two admins
C1_Witness ==
  /\ resp.op \in {"removeParticipant", "leaveGroup"}
  /\ resp.status = 200
  /\ \E c \in Groups : Cardinality(Admins(c)) >= 2

\* the request is turned down and changes nothing
Rejected == resp'.status \in {400, 403} /\ UNCHANGED conversations

\* the requests that ask for the last admin to go while other participants remain
LeaveOrphans(c, u) ==
  /\ c \in Groups
  /\ u \in Participants(c)
  /\ Admins(c) = {u}
  /\ Participants(c) # {u}

RemoveOrphans(c, actor, target) ==
  /\ c \in Groups
  /\ actor \in Participants(c) /\ actor \in Admins(c)
  /\ target \in Participants(c)
  /\ Admins(c) = {target}
  /\ Participants(c) # {target}

UpdateOrphans(c, actor, participants, addAdmins, removeAdmins) ==
  /\ c \in Groups
  /\ actor \in Admins(c)
  /\ Cardinality(Participants(c) \cup SetOf(participants)) >= 2
  /\ (Admins(c) \cup (SetOf(addAdmins) \cap (Participants(c) \cup SetOf(participants))))
        \subseteq SetOf(removeAdmins)

\* C2: a group that exists with at least one participant has at least one admin,
\* and every leave, removeParticipant or updateGroup(removeAdmins) request that
\* would remove the last admin while other participants remain is rejected.
C2_LastAdminProtected ==
  [][ /\ \A c \in DOMAIN conversations' :
           (conversations'[c].isGroup /\ Len(conversations'[c].participants) >= 1)
             => Len(conversations'[c].admins) >= 1
      /\ \A c \in GroupIds, u \in Users :
           (leaveGroup(c, u) /\ LeaveOrphans(c, u)) => Rejected
      /\ \A c \in GroupIds, u \in Users, p \in Users :
           (removeParticipantFromGroup(c, u, p) /\ RemoveOrphans(c, u, p)) => Rejected
      /\ \A c \in GroupIds, u \in Users, b \in UpdateBodies :
           (updateGroupConversation(c, u, b[1], b[2], b[3])
              /\ UpdateOrphans(c, u, b[1], b[2], b[3])) => Rejected
    ]_vars

\* C3: when the only remaining participant of a group leaves or is removed, the
\* conversation is deleted together with all of its messages, and getById of a
\* deleted conversation answers not-found.
C3_LastParticipantTearsDown ==
  [][ /\ \A c \in GroupIds, u \in Users :
           ((leaveGroup(c, u) \/ removeParticipantFromGroup(c, u, u))
              /\ c \in Groups /\ Participants(c) = {u})
             => /\ c \notin DOMAIN conversations'
                /\ \A m \in DOMAIN messages' : messages'[m].conversationId # c
      /\ \A c \in GroupIds, u \in Users :
           (getConversationById(c, u) /\ ~Stored(c)) => resp'.status = 404
    ]_vars

-----------------------------------------------------------------------------
(* Properties of group membership under overlapping requests *)

\* C4: in no reachable state, overlapping leave and removeParticipant requests
\* included, is a conversation stored with zero participants.
C4_NoEmptyConversation ==
  \A c \in DOMAIN conversations : Len(conversations[c].participants) >= 1

\* the last participant has gone after overlapping requests and the
\* conversation went with them
C4_Witness ==
  /\ nextConv = 2
  /\ ~Stored(1)
  /\ resp.op \in {"leaveGroup", "removeParticipant"}
  /\ resp.status = 200

\* the document after request r is handled alone on the document d; a request
\* that would be turned down in that position leaves it as it is
Apply(d, r) ==
  LET o == OutcomeOf(r, d)
  IN CASE o.write = "save"   -> SaveDoc(d, d, o)
       [] o.write = "delete" -> NoDoc
       [] OTHER              -> d

RECURSIVE Replay(_, _, _, _)
Replay(d, done, order, i) ==
  IF i > Len(done) THEN d
  ELSE Replay(Apply(d, done[order[i]]), done, order, i + 1)

Orders(n) == {f \in [1..n -> 1..n] : \A i, j \in 1..n : f[i] = f[j] => i = j}

\* the documents that the requests `done`, handled one after the other in
\* some order, leave of `base`
SerialResults(base, done) == {Replay(base, done, f, 1) : f \in Orders(Len(done))}

\* C5: overlapping mutating requests on one conversation are serialised: when
\* the last of them has answered, participants and admins are what handling
\* the successful ones one after the other, in some order, would have stored.
C5_MutationsSerialised ==
  [][ \A w \in Workers :
        (Finish(w) /\ LastHolder(w))
          => (IF inflight[w].conv \in DOMAIN conversations'
                THEN conversations'[inflight[w].conv] ELSE NoDoc)
               \in SerialResults(window.base, DoneWith(w))
    ]_vars

-----------------------------------------------------------------------------
(* Properties of direct conversations *)

\* the direct conversations of the unordered pair {a, b}
DirectOf(a, b) ==
  {c \in DOMAIN conversations :
     ~conversations[c].isGroup /\ SetOf(conversations[c].participants) = {a, b}}

\* C6: in every reachable state, also after overlapping findOrCreateDirect calls
\* for the same two users, at most one direct conversation exists for any
\* unordered pair of users.
C6_OneDirectPerPair ==
  \A a \in Users, b \in Users : a # b => Cardinality(DirectOf(a, b)) <= 1

\* C7: for two distinct users, a findOrCreateDirect call that follows a call
\* for the same pair, in the same or the reversed argument order, returns the
\* same conversation id and creates nothing, and the pair has one conversation.
C7_FindOrCreateIdempotent ==
  [][ \A a \in Users, b \in Users :
        (/\ a # b
         /\ findOrCreateDirect(a, b)
         /\ resp.op = "findOrCreateDirect"
         /\ {resp.user1, resp.user2} = {a, b})
          => /\ resp'.conv = resp.conv
             /\ conversations' = conversations
             /\ Cardinality(DirectOf(a, b)) = 1
    ]_vars

\* a call found the conversation that a call in the reversed order had created
C7_Witness ==
  /\ resp.op = "findOrCreateDirect"
  /\ resp.user1 # resp.user2
  /\ Stored(resp.conv)
  /\ conversations[resp.conv].participants = <<resp.user2, resp.user1>>

-----------------------------------------------------------------------------
(* Properties of stored and returned messages *)

\* C8: every message persisted by sendMessage or by the send_message event
\* references a conversation that existed, with sender and recipient among its
\* participants, when the message was written.
C8_MessagesAuthorised == \A m \in DOMAIN messages : messages[m].authorised

\* C9: plaintext is never persisted: the stored content of every message is an
\* envelope and not the text the sender supplied, and isEncrypted is true
\* exactly when the stored content is an envelope.
C9_NoPlaintextStored ==
  \A m \in DOMAIN messages :
    /\ IsEnvelope(messages[m].content)
    /\ messages[m].content # messages[m].sent.text
    /\ messages[m].isEncrypted <=> IsEnvelope(messages[m].content)

\* C10: with the key it was accepted under still in use, a message returned by
\* a page fetch of its conversation carries the text the sender supplied, not
\* ciphertext and not the decryption-failure text.
C10_PagesReturnPlaintext ==
  [][ \A c \in NamedIds, u \in Users, l \in 1..MaxLimit, b \in Cursors :
        getMessages(c, u, l, b)
          => \A i \in 1..Len(page'.messages) :
               messages[page'.messages[i].id].sent.key = key
                 => page'.messages[i].content = messages[page'.messages[i].id].sent.text
    ]_vars

-----------------------------------------------------------------------------
(* Properties of paging *)

\* the messages of conversation c
MessagesOf(c) == {m \in DOMAIN messages : messages[m].conversationId = c}

\* C11: for any stored messages of a conversation, equal creation timestamps
\* included, and any limit >= 1, following the `before` cursors until hasMore
\* is false returns every message of the conversation exactly once and, the
\* pages concatenated oldest first, in chronological order.
C11_PagesCoverConversation ==
  client.done =>
    /\ \A m \in MessagesOf(1) :
         Cardinality({i \in 1..Len(client.collected) : client.collected[i] = m}) = 1
    /\ \A i \in 1..Len(client.collected) : client.collected[i] \in MessagesOf(1)
    /\ \A i, j \in 1..Len(client.collected) :
         i < j => messages[client.collected[i]].createdAt
                    <= messages[client.collected[j]].createdAt

\* C12: a page fetch returns hasMore = true if and only if the conversation
\* holds a message strictly older than the oldest message of the returned
\* page, that is, the next fetch with that cursor is not empty.
C12_HasMoreMeansOlderExists ==
  IF Len(page.messages) = 0 THEN ~page.hasMore
  ELSE page.hasMore <=>
         \E m \in MessagesOf(1) :
            messages[m].createdAt < messages[page.messages[1].id].createdAt

-----------------------------------------------------------------------------
(* Properties of the conversation list *)

\* C14: listing a user's conversations and fetching a conversation by id do
\* not fail when the content of a conversation's lastMessage cannot be
\* decrypted: the request is still answered successfully.
C14_ListSurvivesUndecryptable ==
  /\ resp.op = "getConversations" => resp.status = 200
  /\ resp.op = "getById" => resp.status \in {200, 404}

-----------------------------------------------------------------------------
(* Properties of the codecs *)

WellFormed(w, k) ==
  Len(w) = 2 /\ w[1].kind = "iv" /\ w[2].kind = "ct" /\ w[2].key = k

\* C16: decrypt fails with a decryption error and never returns a value for
\* every input that is not of the shape <ivHex>:<ciphertextHex> with exactly
\* one delimiter and made under the key in use.
C16_MalformedRejected ==
  (codec.fn \in {"decryptMessage", "decrypt"} /\ ~WellFormed(codec.input, codec.key))
    => ~codec.ok

-----------------------------------------------------------------------------
(* Read receipts *)

\* the read flag of message m goes from unset to set in this step
BecomesRead(m) ==
  /\ m \in DOMAIN messages /\ m \in DOMAIN messages'
  /\ ~messages[m].read /\ messages'[m].read

\* a mark-read request for m by userId, over HTTP or the socket
MarkRead(m, userId) == markAsRead(m, userId) \/ socketMessageRead(m, userId)

\* C17: a message's read flag is set only by a mark-read request of its
\* recipient, which sends message_read to the sender's channel; a mark-read
\* request by anyone else leaves every message as it was and sends no receipt,
\* and over HTTP it is answered 404.
C17_OnlyRecipientMarksRead ==
  [][/\ \A m \in DOMAIN messages :
          BecomesRead(m) =>
            /\ MarkRead(m, messages[m].recipient)
            /\ Event("message_read", messages[m].sender) \in emitted'
     /\ \A m \in NamedMsgs, u \in Users :
          (MarkRead(m, u) /\ (m \in DOMAIN messages => messages[m].recipient # u)) =>
            /\ UNCHANGED messages
            /\ emitted' = {}
            /\ markAsRead(m, u) => resp'.status = 404]_vars

\* the recipient has marked a message of another user as read and the
\* receipt went to its sender
C17_Witness ==
  \E m \in DOMAIN messages :
    /\ messages[m].read
    /\ messages[m].sender # messages[m].recipient
    /\ resp.op \in {"markAsRead", "message_read"}
    /\ emitted = {Event("message_read", messages[m].sender)}

-----------------------------------------------------------------------------
(* Message deletion *)

\* message m is stored before this step and gone after it
Removed(m) == m \in DOMAIN messages /\ m \notin DOMAIN messages'

\* C18: deleteMessage removes a message only for its original sender, and
\* then tells the recipient; for any other user it answers 404, the message
\* stays stored and no message_deleted event is sent.
C18_OnlySenderDeletes ==
  [][\A m \in NamedMsgs, u \in Users :
       deleteMessage(m, u) =>
         IF m \in DOMAIN messages /\ messages[m].sender = u
           THEN /\ Removed(m)
                /\ emitted' = {Event("message_deleted", messages[m].recipient)}
           ELSE /\ UNCHANGED messages
                /\ resp'.status = 404
                /\ emitted' = {}]_vars

\* the recipient of a stored message was just refused its deletion
C18_Witness ==
  \E m \in DOMAIN messages :
    /\ messages[m].sender # messages[m].recipient
    /\ resp = [op |-> "deleteMessage", status |-> 404, tick |-> resp.tick]
    /\ emitted = {}

-----------------------------------------------------------------------------
(* Admin-restricted operations *)

\* userId is at this moment both a participant and an admin of group c
Authorised(c, userId) ==
  c \in Groups /\ userId \in Participants(c) /\ userId \in Admins(c)

\* the handler answers 403 or 404 and writes nothing
Denies(o) == o.status \in {403, 404} /\ o.write = "none"

\* C19: whenever a user is not at that moment both a participant and an admin
\* of a group, each of that user's requests to add participants, to remove
\* another participant, to update the group or to delete it is answered 403
\* or 404 and writes nothing, so that participants and admins stay as they are.
C19_AdminOperationsDenied ==
  \A c \in Groups, u \in Users :
    ~Authorised(c, u) =>
      /\ \A ps \in IdLists(MaxReqIds) : Denies(addParticipantsOutcome(Doc(c), u, ps))
      /\ \A p \in Participants(c) \ {u} : Denies(removeParticipantOutcome(Doc(c), u, p))
      /\ \A b \in UpdateBodies : Denies(updateGroupOutcome(Doc(c), u, b[1], b[2], b[3]))
      /\ Denies(deleteConversationOutcome(Doc(c), u))

-----------------------------------------------------------------------------
(* The sole admin stays *)

\* the events that tell of a participant gone from the group
DepartureEvents ==
  {e \in emitted' : e.event \in {"participant_left", "left_group", "participant_removed"}}

\* C20: when the sole admin of a group that has other participants asks to
\* leave, or to remove itself, the request is answered 400 before anything is
\* changed: participants and admins stay as they are and no participant_left,
\* left_group or participant_removed event is sent.
C20_SoleAdminStays ==
  [][\A c \in GroupIds, u \in Users :
       ((leaveGroup(c, u) \/ removeParticipantFromGroup(c, u, u)) /\ LeaveOrphans(c, u))
         => /\ resp'.status = 400
            /\ UNCHANGED conversations
            /\ DepartureEvents = {}]_vars

\* the sole admin of a group with other participants was just refused
C20_Witness ==
  \E c \in Groups :
    /\ Cardinality(Admins(c)) = 1
    /\ Cardinality(Participants(c)) >= 2
    /\ resp.op \in {"leaveGroup", "removeParticipant"}
    /\ resp.status = 400
    /\ emitted = {}

-----------------------------------------------------------------------------
(* Direct conversations keep their participants *)

Directs == {c \in DOMAIN conversations : ~conversations[c].isGroup}

\* the requests and methods that change who is in a conversation
MembershipOps ==
  {"leaveGroup", "removeParticipant", "addParticipants", "updateGroup",
   "addParticipant", "removeParticipant()"}

\* C21: a direct conversation keeps the two participants it was created with
\* for as long as it exists: no step changes them, and where only direct
\* conversations are stored every leave, removeParticipant, addParticipants
\* and updateGroup request is answered 403 or 404 and every addParticipant or
\* removeParticipant method call throws.
C21_DirectParticipantsFixed ==
  [][/\ \A c \in Directs :
          /\ Len(conversations[c].participants) = 2
          /\ c \in DOMAIN conversations' =>
               conversations'[c].participants = conversations[c].participants
     /\ (Groups = {} /\ resp'.op \in MembershipOps) =>
          /\ resp'.status \in {403, 404, 500}
          /\ UNCHANGED conversations]_vars

\* a participant of a stored direct conversation was just refused to leave it
C21_Witness ==
  /\ resp.op = "leaveGroup"
  /\ resp.status = 404
  /\ Groups = {}
  /\ \A c \in ConvIds : c \in Directs

-----------------------------------------------------------------------------
(* Sending where no conversation exists *)

\* no stored conversation has both a and b among its participants
NoConversationBetween(a, b) ==
  \A c \in DOMAIN conversations : ~(a \in Participants(c) /\ b \in Participants(c))

\* a send from a to b, over HTTP or the socket, naming any conversation id
Sends(a, b) ==
  \E c \in NamedIds, t \in Plaintexts :
    \/ sendMessage(c, a, b, t)
    \/ \E iv \in IVs : socketSendMessage(c, a, b, t, iv)

\* C22: a send from A to B while no conversation between them exists creates
\* a direct conversation whose participants are exactly A and B, stores the
\* message in it and sends receive_message to B's channel.
C22_SendCreatesDirect ==
  [][\A a \in Users, b \in Users :
       (Sends(a, b) /\ NoConversationBetween(a, b)) =>
         \E c \in DOMAIN conversations' \ DOMAIN conversations :
           /\ ~conversations'[c].isGroup
           /\ Len(conversations'[c].participants) = 2
           /\ SetOf(conversations'[c].participants) = {a, b}
           /\ nextMsg \in DOMAIN messages'
           /\ messages'[nextMsg].conversationId = c
           /\ Event("receive_message", b) \in emitted']_vars

-----------------------------------------------------------------------------
(* Unread counts *)

\* C24: over any sequence of addMessage and markAsRead calls on a
\* conversation, the unread count of a participant goes down only in a
\* markAsRead call made for that same participant.
C24_UnreadOnlyLoweredByOwner ==
  [][\A c \in DOMAIN conversations, u \in Users :
       (c \in DOMAIN conversations'
          /\ getUnreadCount(conversations'[c], u) < getUnreadCount(conversations[c], u))
         => conversationMarkAsRead(c, u)]_vars

-----------------------------------------------------------------------------
(* The projections after a send *)

\* this step stored a new message
Sent == nextMsg \in DOMAIN messages' /\ nextMsg \notin DOMAIN messages

\* C23: after every successful send, by either path, the lastMessage of the
\* message's conversation is the message just sent and every participant
\* other than the sender is marked as having unread messages.
C23_SendUpdatesProjections ==
  [][Sent =>
       LET c == messages'[nextMsg].conversationId
           d == conversations'[c]
       IN /\ c \in DOMAIN conversations'
          /\ d.lastMessage = nextMsg
          /\ \A p \in SetOf(d.participants) \ {messages'[nextMsg].sender} :
               \E i \in 1..Len(d.participantDetails) :
                 d.participantDetails[i].user = p /\ d.participantDetails[i].hasUnread]_vars

-----------------------------------------------------------------------------
(* C25: persistence of a send is independent of live delivery.  Whatever    *)
(* the connections of the recipient, and whatever has become of the         *)
(* sender's connection since the send was taken up, the message is stored   *)
(* and the send reports success; and the recipient's next fetch of the      *)
(* newest page of that conversation returns every message addressed to them *)
(* in it.                                                                   *)

\* the ids of the messages on a page
PageIds(p) == {p.messages[i].id : i \in DOMAIN p.messages}

\* the send that ends in this step has stored its message and reported success
SendStored ==
  /\ \A s \in SocketIds :
        sockets[s].pending # NoSend /\ sockets'[s].pending = NoSend =>
          /\ nextMsg' = nextMsg + 1
          /\ nextMsg \in DOMAIN messages'
          /\ messages'[nextMsg].conversationId = sockets[s].pending.conversationId
          /\ resp' = Response("send_message", 200)
  /\ resp' = Response("sendMessage", 201) =>
        nextMsg' = nextMsg + 1 /\ nextMsg \in DOMAIN messages'

\* the sends a closed connection completes
ClosedSenderStored ==
  \E s \in SocketIds, m \in DOMAIN messages :
     /\ sockets[s].state = "closed"
     /\ messages[m].sender = sockets[s].user
     /\ resp.op = "send_message" /\ resp.status = 200

C25_SendSurvivesDelivery ==
  [][/\ SendStored
     /\ \A c \in GroupIds, r \in Recipients :
          getMessages(c, r, MaxLimit, NoCursor) =>
            \A m \in DOMAIN messages :
               messages[m].conversationId = c /\ messages[m].recipient = r =>
                 m \in PageIds(page')]_vars

\* the same for the sends made in a conversation both parties are in
C25_AuthorisedSendSurvivesDelivery ==
  [][/\ SendStored
     /\ \A c \in GroupIds, r \in Recipients :
          getMessages(c, r, MaxLimit, NoCursor) =>
            \A m \in DOMAIN messages :
               /\ messages[m].authorised
               /\ messages[m].conversationId = c /\ messages[m].recipient = r
               => m \in PageIds(page')]_vars

-----------------------------------------------------------------------------
(* C26: a connection that presents no token, or a token jwt.verify rejects, *)
(* is refused before it joins any channel and before any handler is         *)
(* registered on it; an accepted connection is in exactly one channel, the  *)
(* one of the user its token was signed for, so the channel of user U holds *)
(* only connections authenticated as U.                                     *)

\* what the verification of the token yields: the user it was signed for
VerifiedUser(t) == IF t # NoToken /\ t.valid THEN t.user ELSE None

RefusedUntouched ==
  \A s \in SocketIds, t \in Tokens :
     connect(s, t) =>
       IF VerifiedUser(t) = None
         THEN /\ sockets'[s].state = "refused"
              /\ sockets'[s].rooms = {}
              /\ ~sockets'[s].handlers
         ELSE /\ sockets'[s].state = "connected"
              /\ sockets'[s].rooms = {VerifiedUser(t)}
              /\ sockets'[s].user = VerifiedUser(t)

OwnChannelOnly ==
  \A s \in SocketIds :
     /\ Connected(s) => sockets[s].user \in Users /\ sockets[s].rooms = {sockets[s].user}
     /\ ~Connected(s) => sockets[s].rooms = {}
     /\ sockets[s].state \in {"none", "refused"} => ~sockets[s].handlers
     /\ \A e \in emitted :
          e.to \in Users /\ e.event \in ReceivedBy(s) => sockets[s].user = e.to

C26_RefusedBeforeJoin == [][RefusedUntouched /\ OwnChannelOnly']_vars

\* one connection was refused, another accepted, and an event has just been
\* published to the channel of the accepted one's user
C26_Witness ==
  \E s \in SocketIds, a \in SocketIds :
     /\ sockets[s].state = "refused"
     /\ Connected(a)
     /\ \E e \in emitted : e.to = sockets[a].user /\ e.event \in ReceivedBy(a)

-----------------------------------------------------------------------------
(* C27: after a successful send, over HTTP or over a connection, the        *)
(* new-message event is published to the recipient's channel and            *)
(* message_sent reaches every live connection of the sender, not only the   *)
(* one that issued the send.                                                *)

\* the step is a send answered with success
SendSucceeds ==
  resp' = Response("send_message", 200) \/ resp' = Response("sendMessage", 201)

C27_ConfirmationToAllSenderConnections ==
  [][SendSucceeds =>
       LET m == messages'[nextMsg] IN
       /\ \E e \in emitted' :
            e.to = m.recipient /\ e.event \in {"receive_message", "new_message"}
       /\ \A a \in SocketIds :
            sockets'[a].state = "connected" /\ sockets'[a].user = m.sender =>
              \E e \in emitted' :
                 e.event = "message_sent" /\ (e.to = a \/ e.to \in sockets'[a].rooms)]_vars

\* the same for the connection that issued the send, and for the recipient
C27_ConfirmationToIssuingConnection ==
  [][\A s \in SocketIds :
       sockets[s].pending # NoSend /\ sockets'[s].pending = NoSend =>
         /\ Event("receive_message", sockets[s].pending.recipientId) \in emitted'
         /\ Event("message_sent", s) \in emitted']_vars

-----------------------------------------------------------------------------
(* C28: on a successful addParticipants each newly added user is sent       *)
(* added_to_group and not group_updated; each member of before, the actor   *)
(* apart, is sent group_updated and not added_to_group.                     *)

C28_AddedDistinctFromUpdated ==
  [][\A c \in GroupIds, u \in Users, ps \in IdLists(MaxReqIds) :
       /\ addParticipantsToGroup(c, u, ps)
       /\ addParticipantsOutcome(Doc(c), u, ps).write # "none"
       => \A p \in Users :
            /\ p \in NewParticipants(Doc(c), ps) =>
                 /\ Event("added_to_group", p) \in emitted'
                 /\ Event("group_updated", p) \notin emitted'
            /\ Includes(Doc(c).participants, p) /\ p # u =>
                 /\ Event("group_updated", p) \in emitted'
                 /\ Event("added_to_group", p) \notin emitted']_vars

\* what the handler does send: added_to_group to exactly the new users,
\* group_updated to everyone on the updated list but the actor
C28_AddedAlsoUpdated ==
  [][\A c \in GroupIds, u \in Users, ps \in IdLists(MaxReqIds) :
       /\ addParticipantsToGroup(c, u, ps)
       /\ addParticipantsOutcome(Doc(c), u, ps).write # "none"
       => \A p \in Users :
            /\ Event("added_to_group", p) \in emitted' <=> p \in NewParticipants(Doc(c), ps)
            /\ Event("group_updated", p) \in emitted' <=>
                 p # u /\ (Includes(Doc(c).participants, p) \/ p \in NewParticipants(Doc(c), ps))]_vars

-----------------------------------------------------------------------------
(* C29: after a successful deleteConversation or deleteMessage the deletion *)
(* is in the store, every affected participant other than the actor (the    *)
(* participants of the conversation; the recipient of the message) is sent  *)
(* conversation_deleted / message_deleted, and the actor is not sent it.    *)

MessageRemovalNotified ==
  \A m \in NamedMsgs, u \in Users :
     deleteMessage(m, u) /\ deleteMessageFinds(m, u) =>
       /\ m \notin DOMAIN messages'
       /\ messages[m].recipient # u =>
            Event("message_deleted", messages[m].recipient) \in emitted'
       /\ Event("message_deleted", u) \notin emitted'

ConversationRemovalNotified ==
  \A c \in GroupIds, u \in Users :
     deleteConversation(c, u) /\ deleteConversationOutcome(Doc(c), u).write = "delete" =>
       /\ ~Stored(c)'
       /\ \A m \in DOMAIN messages' : messages'[m].conversationId # c
       /\ \A p \in SetOf(Doc(c).participants) \ {u} :
            Event("conversation_deleted", p) \in emitted'
       /\ Event("conversation_deleted", u) \notin emitted'

C29_RemovalNotifiedToOthersOnly ==
  [][MessageRemovalNotified /\ ConversationRemovalNotified]_vars

\* the same for the messages addressed to someone other than their sender
C29_RemovalOfMessageToAnother ==
  [][\A m \in NamedMsgs, u \in Users :
       deleteMessage(m, u) /\ deleteMessageFinds(m, u) /\ messages[m].recipient # u =>
         /\ m \notin DOMAIN messages'
         /\ emitted' = {Event("message_deleted", messages[m].recipient)}]_vars

C29_RemovalOfConversation == [][ConversationRemovalNotified]_vars

-----------------------------------------------------------------------------
(* C30: conversation deletion cascades completely.  In every reachable      *)
(* state, whatever sends and whatever leave or remove that empties a group  *)
(* come between, every stored message belongs to a stored conversation.     *)

C30_NoMessageOutlivesConversation ==
  \A m \in DOMAIN messages : Stored(messages[m].conversationId)

\* deleteConversation itself leaves no message of the conversation behind
C30_DeleteConversationCascades ==
  [][\A c \in GroupIds, u \in Users :
       deleteConversation(c, u) /\ deleteConversationOutcome(Doc(c), u).write = "delete" =>
         \A m \in DOMAIN messages' : messages'[m].conversationId # c]_vars

-----------------------------------------------------------------------------
(* C31: right after createGroupConversation or Conversation.createGroup by  *)
(* creator C, whatever the participant list (with or without C, with or     *)
(* without repeated ids), C is a participant, no participant is listed      *)
(* twice, and the admins are exactly C.                                     *)

NoDuplicates(arr) == \A i, j \in 1..Len(arr) : arr[i] = arr[j] => i = j

-----------------------------------------------------------------------------
(* C32: after the model's removeParticipant(userId) has run on a group      *)
(* whose admins are participants and include userId, the admins are still   *)
(* participants (userId is no admin any more), and the group has an admin   *)
(* if it has a participant.                                                 *)

C32_RemovedAdminDemoted ==
  [][\A c \in GroupIds, u \in Users, by \in Actors :
       /\ removeParticipant(c, u, by)
       /\ Doc(c).isGroup
       /\ Includes(Doc(c).admins, u)
       /\ SetOf(Doc(c).admins) \subseteq SetOf(Doc(c).participants)
       => LET d == conversations'[c] IN
          /\ ~Includes(d.admins, u)
          /\ SetOf(d.admins) \subseteq SetOf(d.participants)
          /\ d.participants # <<>> => d.admins # <<>>]_vars

\* what the method does to the two lists: the user leaves the participants
\* and the admins stay as they were
C32_RemovedAdminKept ==
  [][\A c \in GroupIds, u \in Users, by \in Actors :
       /\ removeParticipant(c, u, by)
       /\ Doc(c).isGroup
       => LET d == conversations'[c] IN
          /\ d.admins = Doc(c).admins
          /\ d.participants = FilterOut(Doc(c).participants, u)]_vars

-----------------------------------------------------------------------------
(* C33: after any sequence of addMessage calls, in whatever order of the    *)
(* messages' creation times, lastMessage is the added message created      *)
(* last, and it is never a message that has been deleted.                   *)

C33_LastMessageIsNewestAdded ==
  \A c \in DOMAIN conversations :
     LET d == conversations[c] IN
     Len(d.messageHistory) > 0 =>
       /\ d.lastMessage \in DOMAIN messages
       /\ \A i \in 1..Len(d.messageHistory) :
            d.messageHistory[i].timestamp <= messages[d.lastMessage].createdAt

\* what addMessage does keep: lastMessage is the message of the call made last
C33_LastMessageIsLastCall ==
  \A c \in DOMAIN conversations :
     LET d == conversations[c] IN
     Len(d.messageHistory) > 0 =>
       d.lastMessage = d.messageHistory[Len(d.messageHistory)].messageId

\* lastMessage names a message that deleteMessage has removed
C33_LastMessageDeleted ==
  \E c \in DOMAIN conversations :
     conversations[c].lastMessage # 0 /\ conversations[c].lastMessage \notin DOMAIN messages

-----------------------------------------------------------------------------
(* C34: the messageHistory of a conversation never holds more than 100      *)
(* entries, whatever addMessage, addParticipant and removeParticipant calls *)
(* were made, and after addMessage it holds the entries added last.         *)

C34_HistoryCapped ==
  \A c \in DOMAIN conversations : Len(conversations[c].messageHistory) <= HistoryCap

\* addMessage leaves the newest HistoryCap entries, its own last among them
C34_AddMessageKeepsNewest ==
  [][\A m \in DOMAIN messages :
       addMessage(1, m) =>
         LET before == conversations[1].messageHistory
             after  == conversations'[1].messageHistory
             all    == Append(before, [messageId |-> m, sender |-> messages[m].sender,
                                       timestamp |-> messages[m].createdAt])
         IN /\ (Len(before) < HistoryCap => after = all)
            /\ (Len(before) >= HistoryCap =>
                  after = SubSeq(all, Len(all) - HistoryCap + 1, Len(all)))]_vars

-----------------------------------------------------------------------------
(* C35: for every participant u, getUnreadCount(u) is the number of history *)
(* entries later than u's lastRead that someone else sent; it is 0 right    *)
(* after markAsRead(u); a message u sent never increases it; and u's        *)
(* hasUnread flag is true exactly when getUnreadCount(u) > 0.               *)

\* the participantDetails entry of userId
DetailOf(d, userId) ==
  d.participantDetails[CHOOSE i \in 1..Len(d.participantDetails) :
                          d.participantDetails[i].user = userId]

HasDetail(d, userId) ==
  \E i \in 1..Len(d.participantDetails) : d.participantDetails[i].user = userId

ZeroAfterMarkAsRead ==
  \A u \in Users :
     conversationMarkAsRead(1, u) /\ HasDetail(Doc(1), u) =>
       getUnreadCount(conversations'[1], u) = 0

OwnMessageNotCounted ==
  \A m \in DOMAIN messages :
     addMessage(1, m) =>
       getUnreadCount(conversations'[1], messages[m].sender)
         <= getUnreadCount(conversations[1], messages[m].sender)

FlagMatchesCount(d) ==
  \A u \in Users :
     HasDetail(d, u) => (DetailOf(d, u).hasUnread <=> getUnreadCount(d, u) > 0)

C35_UnreadCountAndFlagAgree ==
  [][ZeroAfterMarkAsRead /\ OwnMessageNotCounted /\ FlagMatchesCount(conversations'[1])]_vars

\* the two parts about what a call does to the caller's or the sender's count
C35_CountAfterCalls == [][ZeroAfterMarkAsRead /\ OwnMessageNotCounted]_vars

\* the flag part for the sender of the added message alone (it fails too: the
\* flag stays up over a count the sender's own message has emptied)
C35_FlagAfterOwnMessage ==
  [][\A m \in DOMAIN messages :
       addMessage(1, m) /\ FlagMatchesCount(conversations[1]) =>
         LET u == messages[m].sender IN
         DetailOf(conversations'[1], u).hasUnread <=>
           getUnreadCount(conversations'[1], u) > 0]_vars

-----------------------------------------------------------------------------
(* C36: in every reachable state, whatever membership changes the model     *)
(* methods and the controller handlers have made, the users with a          *)
(* participantDetails entry are the participants of the conversation, one   *)
(* entry each.                                                              *)

DetailUsers(d) == [i \in 1..Len(d.participantDetails) |-> d.participantDetails[i].user]

DetailsMatch(d) ==
  /\ SetOf(DetailUsers(d)) = SetOf(d.participants)
  /\ NoDuplicates(DetailUsers(d))

C36_DetailsMatchParticipants ==
  \A c \in DOMAIN conversations : DetailsMatch(conversations[c])

\* the steps of the model's own methods and of the two creations keep it
C36_MethodsKeepDetails ==
  [][\A c \in GroupIds :
       /\ resp'.op \in {"createGroup", "Conversation.createGroup", "addParticipant",
                        "removeParticipant()"}
       /\ Stored(c)' /\ (Stored(c) => DetailsMatch(Doc(c)))
       => DetailsMatch(conversations'[c])]_vars

-----------------------------------------------------------------------------
(* C37: once a user has left a group or has been removed from it, every     *)
(* later read of the conversation by that user is rejected (the page fetch, *)
(* getById) or omits it (the conversation list), and no send of that user,  *)
(* over HTTP or over a connection, stores a message in the conversation.    *)

\* the members the group started with who are members no more
Departed(c) == {u \in {"u1", "u2"} : ~Includes(Doc(c).participants, u)}

ReadsRejected ==
  \A c \in GroupIds : \A u \in Departed(c) :
     /\ getMessages(c, u, MaxLimit, NoCursor) => resp'.status = 403 /\ page' = NoPage
     /\ getConversationById(c, u) => resp'.status = 404
     /\ c \notin getConversationsFinds(u)

SendsRejected ==
  \A c \in GroupIds : \A u \in Departed(c) :
     \A m \in DOMAIN messages' \ DOMAIN messages :
        ~(messages'[m].sender = u /\ messages'[m].conversationId = c)

C37_DepartedLockedOut == [][ReadsRejected /\ SendsRejected]_vars

\* the reads, and the sends over HTTP
C37_DepartedLockedOutOverHttp ==
  [][ReadsRejected /\ (resp'.op = "sendMessage" => SendsRejected)]_vars

\* a departed member has just been refused a read
C37_ReadRefused ==
  /\ Departed(1) # {}
  /\ resp.op \in {"getMessages", "getById"} /\ resp.status \in {403, 404}

-----------------------------------------------------------------------------
(* C38: a send_message event that lacks content, recipientId or             *)
(* conversationId is rejected: no message is stored (none is on its way to  *)
(* the store either), no receive_message and no message_sent is emitted,    *)
(* and the issuing connection alone is sent an error event.                 *)

C38_IncompleteSendRejected ==
  [][\A s \in SocketIds, c \in GroupIds \cup {0}, r \in EventUsers \cup {None},
        content \in SentContents, iv \in IVs :
       beginSend(s, c, r, content, iv) /\ (content = NoContent \/ r = None \/ c = 0) =>
         /\ messages' = messages /\ nextMsg' = nextMsg
         /\ sockets'[s].pending = NoSend
         /\ emitted' = {Event("error", s)}]_vars

\* a connection has just been sent the error, and nothing else went out
C38_Witness ==
  \E s \in SocketIds :
     /\ Connected(s)
     /\ emitted = {Event("error", s)}
     /\ ReceivedBy(s) = {"error"}
     /\ \A a \in SocketIds \ {s} : ReceivedBy(a) = {}

-----------------------------------------------------------------------------
(* C39: a stored message keeps its conversation, sender, recipient and      *)
(* content for as long as it is stored, whatever is sent, marked as read    *)
(* or deleted, and its read flag, once true, is never false again.          *)

C39_MessageFixedReadMonotonic ==
  [][messages' # messages =>
       \A m \in DOMAIN messages \cap DOMAIN messages' :
          /\ messages'[m].conversationId = messages[m].conversationId
          /\ messages'[m].sender = messages[m].sender
          /\ messages'[m].recipient = messages[m].recipient
          /\ messages'[m].content = messages[m].content
          /\ messages[m].read => messages'[m].read]_vars

\* a message with its content is read, and the mark-read request that came
\* last, from a user who is not its recipient, left it so
C39_Witness ==
  \E m \in DOMAIN messages :
     /\ messages[m].read
     /\ messages[m].content # NoContent
     /\ resp.op = "markAsRead" /\ resp.status = 404

-----------------------------------------------------------------------------
(* C40: a typing event leaves conversations (with their unread counters)    *)
(* and messages as they are and emits exactly one user_typing event: it     *)
(* carries the user id of the connection that typed, goes to the channel of *)
(* the named recipient, reaches every other connection in that channel and  *)
(* never the connection that typed.                                         *)

C40_TypingEphemeral ==
  [][\A s \in SocketIds, r \in EventUsers \cup {None} :
       typing(s, r) =>
         /\ conversations' = conversations /\ messages' = messages
         /\ nextConv' = nextConv /\ nextMsg' = nextMsg
         /\ Cardinality(emitted') = 1
         /\ \A e \in emitted' :
               e.event = "user_typing" /\ e.to = r /\ e.userId = sockets[s].user
         /\ "user_typing" \notin ReceivedBy(s)'
         /\ \A a \in SocketIds \ {s} :
               "user_typing" \in ReceivedBy(a)' <=> Connected(a) /\ sockets[a].user = r]_vars

\* a user with two connections typed to their own channel: the other
\* connection received user_typing, the typing one did not
C40_Witness ==
  \E s \in SocketIds, a \in SocketIds :
     /\ s # a /\ Connected(s) /\ Connected(a)
     /\ sockets[a].user = sockets[s].user
     /\ emitted = {typingEvent(s, sockets[s].user)}
     /\ ReceivedBy(a) = {"user_typing"}
     /\ ReceivedBy(s) = {}

====
